---- MODULE Spec2Model ----
(***************************************************************************)
(* python-was: the WAS adapter (src/src/was.cxx) driving the WSGI gateway  *)
(* (src/src/wsgi.cxx).  One worker process runs Was::Run; every accepted   *)
(* request is decoded by Was::ProcessRequest, handed to                    *)
(* WsgiRequestHandler::Process, which calls the hosted application and     *)
(* consumes its iterable.  The application is the environment: it may call *)
(* start_response, catch or propagate what start_response raises, return   *)
(* its iterable, yield chunks, raise, or finish.  The WAS transport        *)
(* (libcm4all-was) is the other side of the environment: it hands out      *)
(* requests and may report failure on any call.                            *)
(***************************************************************************)
EXTENDS Integers, Sequences, FiniteSets, TLC

VARIABLES
    pc,                   \* "accept" (Was::Run loop head), "app" (control is inside the application), "done" (Run returned), "crashed" (process terminated by a failed assert)
    phase,                \* inside the application: "call" (PyObject_CallObject) or "iter" (PyIter_Next); "none" otherwise
    ndebug,               \* the build: TRUE when assert() is compiled out
    accepted,             \* number of requests was_simple_accept has handed out
    was,                  \* what was_simple_accept returned last, and what the transport reports for that request
    request,              \* HttpRequest as built by Was::ProcessRequest (body part)
    handler_calls,        \* times handler.Process was invoked for the current request
    response,             \* HttpResponse of the current Process call
    headers_sent,         \* HttpResponder::headers_sent
    content_length_left,  \* WasResponder::content_length_left
    calls,                \* transport calls of the current request, in order
    pyerr,                \* the interpreter's error indicator ("none" when clear)
    sr_calls,             \* start_response calls made in the current request
    chunks,               \* chunks yielded in the current request
    send_headers_count,   \* executions of WasResponder::SendHeaders in the current request
    sr_produced,          \* start_response calls of the request that changed the response record
    exc_seen,             \* some start_response call of the request supplied exc_info
    assert_raised,        \* some start_response call of the request raised AssertionError
    has_close,            \* the object the application returned has a close attribute
    close_calls,          \* times Process called close() on it
    capsule,              \* the capsule behind this request's start_response: "none" (not created), "valid", "invalidated" (name reset)
    retained,             \* the capsule behind a start_response callable the application kept from an earlier request ("none": it kept none)
    environ,              \* the environ dictionary Process built for the current request
    input,                \* the bytes of the request body the transport has not yet delivered
    rd,                   \* the last wsgi.input.read call of the request and what it returned
    startup,              \* the arguments and modules FindApp works on, and what it returned
    conv,                 \* a string under conversion between bytes and native string
    driver,               \* what main runs the handler under: "was" or "stdio"
    ev                    \* the last step taken

vars == <<pc, phase, ndebug, accepted, was, request, handler_calls, response,
          headers_sent, content_length_left, calls, pyerr, sr_calls, chunks,
          send_headers_count, sr_produced, exc_seen, assert_raised,
          has_close, close_calls, capsule, retained, environ, input, rd, startup, conv, driver, ev>>

----------------------------------------------------------------------------
(* Bounds of the model *)

MaxRequests == 1          \* requests accepted in one run
MaxStartResponse == 2     \* start_response calls per request
MaxChunks == 2            \* chunks yielded per request
MaxChunkLen == 2          \* bytes in a chunk
MaxDigits == 5            \* digits in a number the application supplies
LoopMaxRequests == 2      \* the same bounds, for the runs that vary the requests
LoopMaxChunks == 1
LoopMaxChunkLen == 1
MaxRequestHeaders == 2   \* headers of a request, for the runs that vary them
MaxUriLen == 3           \* bytes of a request URI, for the runs that vary it
MaxBodyLen == 3          \* bytes of a request body, for the runs that read it
MaxReads == 3            \* wsgi.input.read calls per request
MaxHeaderLen == 2        \* characters of a response header's name or value, for the runs that vary them

----------------------------------------------------------------------------
(* Values *)

\* std::nullopt of std::optional<uint64_t>
NullOpt == -1

HTTP_STATUS_METHOD_NOT_ALLOWED == 405

UINT16_MAX == 65535

\* Stands for the largest uint64_t, which TLC's integers cannot hold;
\* a string of at most MaxDigits digits never reaches it.
UINT64_CAP == 2147483647

Min(a, b) == IF a < b THEN a ELSE b

\* Byte strings are tuples of octets; text strings are tuples of code points.
CONTENT_LENGTH == <<67, 111, 110, 116, 101, 110, 116, 45, 76, 101, 110, 103, 116, 104>>

\* An object that is not a text string (PyUnicode_Check fails on it)
NotStr == <<-1>>

NoHeader == [name |-> <<>>, value |-> <<>>]

Call(op, n, h) == [op |-> op, n |-> n, h |-> h]

HttpResponse0 == [status |-> 0, headers |-> <<>>, content_length |-> NullOpt]

\* op: the step; exc: the exc_info argument of a start_response step;
\* err: the Python exception the step raised or let out; threw: Process ended
\* with a C++ exception; n: the size of the chunk of a yield step;
\* h: the header list argument of a start_response step
NoEvent == [op |-> "init", exc |-> "none", err |-> "none", threw |-> FALSE, n |-> 0, h |-> <<>>]

Event(op) == [NoEvent EXCEPT !.op = op]

----------------------------------------------------------------------------
(* HTTP value model: src/src/http.cxx *)

\* util/CharUtil.hxx, as used by HeaderMatch and check_header_name
ToLowerASCII(c) == IF c >= 65 /\ c <= 90 THEN c + 32 ELSE c

Lower(s) == [i \in 1..Len(s) |-> ToLowerASCII(s[i])]

\* Mutant: the comparison is case-sensitive
HeaderMatch_exact(a, b) == Len(a) # 0 /\ a = b

HeaderMatch(a, b) ==
    /\ Len(a) # 0
    /\ Len(a) = Len(b)
    /\ \A i \in 1..Len(a) : ToLowerASCII(a[i]) = ToLowerASCII(b[i])

----------------------------------------------------------------------------
(* Header validators: src/src/wsgi.cxx *)

Separators == {40, 41, 60, 62, 64, 44, 59, 58, 92, 34, 47, 91, 93, 63, 61, 123, 125, 32, 9}

is_valid_header_name(name) ==
    /\ Len(name) # 0
    /\ \A i \in 1..Len(name) :
          /\ name[i] >= 32
          /\ name[i] < 127
          /\ name[i] \notin Separators

\* http/header.h of libcommon, applied to the lower-cased name
HopByHop ==
    { <<99, 111, 110, 110, 101, 99, 116, 105, 111, 110>>,
      <<99, 111, 110, 116, 101, 110, 116, 45, 108, 101, 110, 103, 116, 104>>,
      <<107, 101, 101, 112, 45, 97, 108, 105, 118, 101>>,
      <<112, 114, 111, 120, 121, 45, 97, 117, 116, 104, 101, 110, 116, 105, 99, 97, 116, 101>>,
      <<112, 114, 111, 120, 121, 45, 97, 117, 116, 104, 111, 114, 105, 122, 97, 116, 105, 111, 110>>,
      <<116, 101>>,
      <<116, 114, 97, 105, 108, 101, 114>>,
      <<116, 114, 97, 110, 115, 102, 101, 114, 45, 101, 110, 99, 111, 100, 105, 110, 103>>,
      <<117, 112, 103, 114, 97, 100, 101>> }

http_header_is_hop_by_hop(lower) == lower \in HopByHop

\* Mutant: every name is accepted
check_header_name_lax(name) == TRUE

\* Mutant: hop-by-hop names are not rejected
check_header_name_no_hop(name) == is_valid_header_name(name)

check_header_name(name) ==
    /\ is_valid_header_name(name)
    /\ ~(Lower(name) # Lower(CONTENT_LENGTH) /\ http_header_is_hop_by_hop(Lower(name)))

\* Mutant: control characters are accepted in a value
is_valid_header_value_any(value) == TRUE

is_valid_header_value(value) ==
    \A i \in 1..Len(value) :
        \/ value[i] >= 33 /\ value[i] <= 126
        \/ value[i] >= 128 /\ value[i] <= 255
        \/ value[i] = 32
        \/ value[i] = 9

check_header_value(value) == is_valid_header_value(value)

PyUnicode_Check(obj) == obj # NotStr

\* from_native_string succeeds iff every code point fits one byte; the bytes
\* it returns are then the code points themselves.
from_native_string_ok(str) == \A i \in 1..Len(str) : str[i] <= 255

----------------------------------------------------------------------------
(* Number parsing and status codes (libcommon), as called from StartResponse *)

IsDigit(c) == c >= 48 /\ c <= 57

RECURSIVE DecimalValue(_, _, _)
DecimalValue(s, i, acc) ==
    IF i > Len(s) THEN acc ELSE DecimalValue(s, i + 1, acc * 10 + (s[i] - 48))

\* ParseInteger<T>: the whole string must be a decimal number that fits T.
\* The model's strings have at most MaxDigits digits, so that the value stays
\* within TLC's integers.
ParseInteger(s, max) ==
    IF Len(s) = 0 \/ Len(s) > MaxDigits \/ \E i \in 1..Len(s) : ~IsDigit(s[i])
    THEN NullOpt
    ELSE LET v == DecimalValue(s, 1, 0) IN IF v > max THEN NullOpt ELSE v

\* status_sv.substr(0, status_sv.find(ch))
SubstrBefore(s, ch) ==
    IF \E i \in 1..Len(s) : s[i] = ch
    THEN SubSeq(s, 1, (CHOOSE i \in 1..Len(s) : s[i] = ch /\ \A j \in 1..(i - 1) : s[j] # ch) - 1)
    ELSE s

\* http/status.h of libcommon: the codes that have a status line
RecognizedStatus ==
    {100, 101, 200, 201, 202, 203, 204, 205, 206, 207,
     300, 301, 302, 303, 304, 305, 307, 308,
     400, 401, 402, 403, 404, 405, 406, 407, 408, 409, 410, 411, 412, 413,
     414, 415, 416, 417, 418, 421, 422, 423, 424, 426, 428, 429, 431, 451,
     500, 501, 502, 503, 504, 505, 506, 507, 508, 510, 511}

http_status_is_valid(status) == status \in RecognizedStatus

----------------------------------------------------------------------------
(* WasResponder: src/src/was.cxx *)

\* The responder of a request: HttpResponder::headers_sent and
\* WasResponder::content_length_left
Responder0 == [headers_sent |-> FALSE, content_length_left |-> 0]

\* Mutant: a known length is always announced with set_length, end is never
\* called
SendHeadersCalls_no_end(resp) ==
    <<Call("status", resp.status, NoHeader)>>
    \o [i \in 1..Len(resp.headers) |-> Call("set_header", 0, resp.headers[i])]
    \o (IF resp.content_length # NullOpt
        THEN <<Call("set_length", resp.content_length, NoHeader)>>
        ELSE <<>>)

\* The transport calls SendHeaders makes when none of them fails
SendHeadersCalls(resp) ==
    <<Call("status", resp.status, NoHeader)>>
    \o [i \in 1..Len(resp.headers) |-> Call("set_header", 0, resp.headers[i])]
    \o (IF resp.content_length = 0 THEN <<Call("end", 0, NoHeader)>>
        ELSE IF resp.content_length # NullOpt
             THEN <<Call("set_length", resp.content_length, NoHeader)>>
             ELSE <<>>)

\* Mutant: headers_sent is never set
SendHeadersDone_forgets(rs, content_length) ==
    [headers_sent |-> rs.headers_sent, content_length_left |-> content_length]

\* What SendHeaders leaves in the responder when every call succeeded:
\* content_length_left = response.content_length; headers_sent = true
SendHeadersDone(rs, content_length) ==
    [headers_sent |-> TRUE, content_length_left |-> content_length]

\* SendHeaders on responder rs. fail = k > 0: the k-th transport call of this
\* step reports failure. nd: assert() is compiled out.
\* outcome: "ok", "threw" (std::runtime_error) or "crashed" (assert failed).
SendHeaders(resp, rs, fail, nd) ==
    IF ~http_status_is_valid(resp.status) /\ ~nd
    THEN [made |-> <<>>, outcome |-> "crashed", rs |-> rs, sh |-> 1]
    ELSE LET all == SendHeadersCalls(resp)
         IN IF fail \in 1..Len(all)
            THEN [made |-> SubSeq(all, 1, fail), outcome |-> "threw",
                  rs |-> IF fail > 1 + Len(resp.headers)
                         THEN [rs EXCEPT !.content_length_left = resp.content_length]
                         ELSE rs,
                  sh |-> 1]
            ELSE [made |-> all, outcome |-> "ok",
                  rs |-> SendHeadersDone(rs, resp.content_length),
                  sh |-> 1]

\* Mutant: the write is not capped
write_len_uncapped(left, size) == size

\* The number of bytes SendBody hands to was_simple_write
write_len(left, size) == IF left # NullOpt THEN Min(left, size) ELSE size

\* Mutant: SendBody does not count the bytes it sent
SendBody_keeps_left(size, rs, fail, nd) ==
    IF ~rs.headers_sent /\ ~nd
    THEN [made |-> <<>>, outcome |-> "crashed", rs |-> rs]
    ELSE LET made == <<Call("write", write_len(rs.content_length_left, size), NoHeader)>>
         IN IF fail = 1 \/ (rs.content_length_left # NullOpt /\ size > rs.content_length_left)
            THEN [made |-> made, outcome |-> "threw", rs |-> rs]
            ELSE [made |-> made, outcome |-> "ok", rs |-> rs]

\* SendBody of a chunk of `size` bytes
SendBody(size, rs, fail, nd) ==
    IF ~rs.headers_sent /\ ~nd
    THEN [made |-> <<>>, outcome |-> "crashed", rs |-> rs]
    ELSE LET made == <<Call("write", write_len(rs.content_length_left, size), NoHeader)>>
         IN IF fail = 1
            THEN [made |-> made, outcome |-> "threw", rs |-> rs]
            ELSE IF rs.content_length_left # NullOpt
                 THEN IF size > rs.content_length_left
                      THEN [made |-> made, outcome |-> "threw", rs |-> rs]
                      ELSE [made |-> made, outcome |-> "ok",
                            rs |-> [rs EXCEPT !.content_length_left = @ - size]]
                 ELSE [made |-> made, outcome |-> "ok", rs |-> rs]

\* PrintResponder::SendHeaders of the stdio test mode: print_response, and
\* nothing else
PrintResponder_SendHeaders(resp, rs) ==
    [made |-> <<Call("print_response", resp.status, NoHeader)>>, outcome |-> "ok", rs |-> rs, sh |-> 1]

\* PrintResponder::SendBody: the chunk is printed
PrintResponder_SendBody(size, rs) ==
    [made |-> <<Call("print", size, NoHeader)>>, outcome |-> "ok", rs |-> rs]

\* responder.SendHeaders(...): the virtual call, on the responder the driver
\* handed to Process
HttpResponder_SendHeaders(resp, rs, fail, nd) ==
    IF driver = "stdio" THEN PrintResponder_SendHeaders(resp, rs)
    ELSE SendHeaders(resp, rs, fail, nd)

\* responder.SendBody(...)
HttpResponder_SendBody(size, rs, fail, nd) ==
    IF driver = "stdio" THEN PrintResponder_SendBody(size, rs)
    ELSE SendBody(size, rs, fail, nd)

----------------------------------------------------------------------------
(* start_response: src/src/wsgi.cxx *)

\* PyCapsule_New(&start_response_ctx, "StartResponseContext", nullptr)
PyCapsule_New == "valid"

\* PyCapsule_SetName(start_response_ctx_capsule, nullptr)
PyCapsule_SetName_nullptr == "invalidated"

\* PyCapsule_GetPointer(self, "StartResponseContext") returns the pointer
\* iff the capsule still has that name
PyCapsule_GetPointer(c) == c = "valid"

\* PyErr_SetExcInfo stores the triple as the exception being handled (what
\* sys.exc_info() reports) and leaves the error indicator clear; the function
\* then returns nullptr, and for a NULL result without an error set the
\* interpreter raises SystemError in the caller.
PyErr_SetExcInfo_return_nullptr == "SystemError"

\* Mutant: a repeated call is not noticed
AlreadyCalled_never(resp) == FALSE

\* else if (response.status): start_response was called before
AlreadyCalled(resp) == resp.status # 0

\* What start_response raises before it touches the response ("none": it goes on)
SR_Precheck(exc, resp, sent) ==
    IF exc = "invalid" THEN "TypeError"
    ELSE IF exc = "valid"
         THEN IF sent THEN PyErr_SetExcInfo_return_nullptr ELSE "none"
         ELSE IF AlreadyCalled(resp) THEN "AssertionError" ELSE "none"

\* Parsing and storing the status
SR_Status(status, resp) ==
    LET code == ParseInteger(SubstrBefore(status, 32), UINT16_MAX)
    IN IF code = NullOpt
       THEN [response |-> resp, err |-> "ValueError"]
       ELSE [response |-> [resp EXCEPT !.status = code],
             err |-> IF http_status_is_valid(code) THEN "none" ELSE "ValueError"]

\* The loop over the header list, from item i on
RECURSIVE HeaderLoop(_, _, _)
HeaderLoop(headers, i, resp) ==
    IF i > Len(headers) THEN [response |-> resp, err |-> "none"]
    ELSE LET name == headers[i].name
             value == headers[i].value
         IN IF ~PyUnicode_Check(name) \/ ~PyUnicode_Check(value)
            THEN [response |-> resp, err |-> "TypeError"]
            ELSE IF ~from_native_string_ok(name) THEN [response |-> resp, err |-> "ValueError"]
            ELSE IF ~check_header_name(name) THEN [response |-> resp, err |-> "ValueError"]
            ELSE IF ~from_native_string_ok(value) THEN [response |-> resp, err |-> "ValueError"]
            ELSE IF ~check_header_value(value) THEN [response |-> resp, err |-> "ValueError"]
            ELSE IF HeaderMatch(name, CONTENT_LENGTH)
                 THEN LET num == ParseInteger(value, UINT64_CAP)
                      IN IF num = NullOpt
                         THEN [response |-> resp, err |-> "ValueError"]
                         ELSE HeaderLoop(headers, i + 1, [resp EXCEPT !.content_length = num])
                 ELSE HeaderLoop(headers, i + 1,
                                 [resp EXCEPT !.headers = Append(@, [name |-> name, value |-> value])])

\* Mutant: the status is stored before the checks on exc_info and on a
\* repeated call
StartResponse_stores_first(status, headers, exc, resp, sent) ==
    LET st == SR_Status(status, resp)
        pre == SR_Precheck(exc, resp, sent)
    IN IF pre # "none" THEN [response |-> st.response, err |-> pre]
       ELSE IF st.err # "none" THEN st
       ELSE HeaderLoop(headers, 1, st.response)

\* start_response(status, headers, exc_info) up to the point where it may send
\* the headers: the response record it leaves and the Python error it sets
StartResponse(status, headers, exc, resp, sent) ==
    LET pre == SR_Precheck(exc, resp, sent)
    IN IF pre # "none" THEN [response |-> resp, err |-> pre]
       ELSE LET st == SR_Status(status, resp)
            IN IF st.err # "none" THEN st
               ELSE HeaderLoop(headers, 1, st.response)

\* Mutant: start_response never sends the headers itself
SendsImmediately_never(resp) == FALSE

\* if (response.content_length == 0): headers are sent from start_response
SendsImmediately(resp) == resp.content_length = 0

----------------------------------------------------------------------------
(* WsgiRequestHandler::Process, the part that consumes the iterable:
   src/src/wsgi.cxx *)

\* Mutant: the check is dropped
NeedSendHeaders_always(rs) == TRUE

\* if (!responder.HeadersSent())
NeedSendHeaders(rs) == ~rs.headers_sent

\* Mutant: the headers are sent without a look at the status
EnsureHeaders_unchecked(resp, rs, fail, nd) ==
    IF NeedSendHeaders(rs)
    THEN HttpResponder_SendHeaders(resp, rs, fail, nd)
    ELSE [made |-> <<>>, outcome |-> "ok", rs |-> rs, sh |-> 0]

\* Lines 616-623 and 628-634: make sure the headers went out
EnsureHeaders(resp, rs, fail, nd) ==
    IF NeedSendHeaders(rs)
    THEN IF resp.status = 0
         THEN [made |-> <<>>, outcome |-> "threw", rs |-> rs, sh |-> 0]
         ELSE HttpResponder_SendHeaders(resp, rs, fail, nd)
    ELSE [made |-> <<>>, outcome |-> "ok", rs |-> rs, sh |-> 0]

\* The body of the loop for one yielded chunk of `size` bytes
ProcessChunk(resp, rs, size, fail, nd) ==
    LET eh == EnsureHeaders(resp, rs, fail, nd)
    IN IF eh.outcome # "ok" THEN eh
       ELSE LET sb == HttpResponder_SendBody(size, eh.rs, IF fail = Len(eh.made) + 1 THEN 1 ELSE 0, nd)
            IN [made |-> eh.made \o sb.made, outcome |-> sb.outcome, rs |-> sb.rs, sh |-> eh.sh]

----------------------------------------------------------------------------
(* WsgiRequestHandler::Process, the part that builds environ:
   src/src/wsgi.cxx *)

\* util/CharUtil.hxx, as used by TranslateHeader
ToUpperASCII(c) == IF c >= 97 /\ c <= 122 THEN c - 32 ELSE c

HTTP_PREFIX == <<72, 84, 84, 80, 95>>      \* "HTTP_"

CONTENT_TYPE == <<67, 111, 110, 116, 101, 110, 116, 45, 84, 121, 112, 101>>

K_CONTENT_TYPE == <<67, 79, 78, 84, 69, 78, 84, 95, 84, 89, 80, 69>>

K_CONTENT_LENGTH == <<67, 79, 78, 84, 69, 78, 84, 95, 76, 69, 78, 71, 84, 72>>

K_PATH_INFO == <<80, 65, 84, 72, 95, 73, 78, 70, 79>>

K_QUERY_STRING == <<81, 85, 69, 82, 89, 95, 83, 84, 82, 73, 78, 71>>

K_SERVER_NAME == <<83, 69, 82, 86, 69, 82, 95, 78, 65, 77, 69>>

K_SERVER_PORT == <<83, 69, 82, 86, 69, 82, 95, 80, 79, 82, 84>>

K_SERVER_PROTOCOL == <<83, 69, 82, 86, 69, 82, 95, 80, 82, 79, 84, 79, 67, 79, 76>>

K_SERVER_SOFTWARE == <<83, 69, 82, 86, 69, 82, 95, 83, 79, 70, 84, 87, 65, 82, 69>>

K_HTTPS == <<72, 84, 84, 80, 83>>

K_wsgi_url_scheme == <<119, 115, 103, 105, 46, 117, 114, 108, 95, 115, 99, 104, 101, 109, 101>>

SERVER_SOFTWARE == <<112, 121, 116, 104, 111, 110, 45, 119, 97, 115, 47, 118, 48, 46, 49>>   \* "python-was/v0.1"

HOST == <<72, 111, 115, 116>>                                               \* "Host"

X_CM4ALL_HTTPS == <<88, 45, 67, 77, 52, 97, 108, 108, 45, 72, 84, 84, 80, 83>>   \* "X-CM4all-HTTPS"

STR_on == <<111, 110>>

STR_localhost == <<108, 111, 99, 97, 108, 104, 111, 115, 116>>

STR_80 == <<56, 48>>

STR_443 == <<52, 52, 51>>

STR_http == <<104, 116, 116, 112>>

STR_https == <<104, 116, 116, 112, 115>>

STR_HTTP_1_1 == <<72, 84, 84, 80, 47, 49, 46, 49>>

\* std::string(count, '\0'): a string of count NUL bytes
NulString(count) == [i \in 1..count |-> 0]

\* TranslateHeader: the string is constructed with size() + 5 NUL bytes,
\* "HTTP_" is appended to it, and the first size() bytes are overwritten with
\* the upper-cased name, '-' replaced by '_'.
TranslateHeader(header_name) ==
    LET size == Len(header_name)
        str == NulString(size + 5) \o HTTP_PREFIX
    IN [i \in 1..Len(str) |->
          IF i <= size
          THEN LET c == ToUpperASCII(header_name[i]) IN IF c = 45 THEN 95 ELSE c
          ELSE str[i]]

\* What a function taking a C string reads from std::string::c_str(): the
\* bytes before the first NUL
c_str(str) == SubstrBefore(str, 0)

\* Py::uc_from_latin1: each byte becomes the code point of the same number
native_string(str) == [i \in 1..Len(str) |-> str[i]]

\* fmt::format("{}", n) for an unsigned number
RECURSIVE DecimalText(_)
DecimalText(n) ==
    IF n < 10 THEN <<48 + n>> ELSE DecimalText(n \div 10) \o <<48 + (n % 10)>>

\* HttpRequest::FindHeader(...).value_or("")
FindHeaderOrEmpty(headers, header_name) ==
    IF \E i \in 1..Len(headers) : HeaderMatch(headers[i].name, header_name)
    THEN headers[CHOOSE i \in 1..Len(headers) :
                     /\ HeaderMatch(headers[i].name, header_name)
                     /\ \A j \in 1..(i - 1) : ~HeaderMatch(headers[j].name, header_name)].value
    ELSE <<>>

\* environ is a dictionary: a function from keys to values
EmptyEnviron == [k \in {} |-> <<>>]

\* PyDict_SetItemString(environ, key, value): key is read as a C string
PyDict_SetItemString(dict, key, value) ==
    [k \in DOMAIN dict \cup {key} |-> IF k = key THEN value ELSE dict[k]]

\* PyDict_SetItemString for each (key, value) of a list, in order
RECURSIVE SetItems(_, _, _)
SetItems(dict, items, i) ==
    IF i > Len(items) THEN dict
    ELSE SetItems(PyDict_SetItemString(dict, items[i][1], native_string(items[i][2])), items, i + 1)

\* The string entries set before the loop over the request headers, in the
\* order of the code
FixedEnviron(req) ==
    SetItems(EmptyEnviron,
             << <<K_PATH_INFO, req.uri.path>>,
                <<K_QUERY_STRING, req.uri.query>>,
                <<K_CONTENT_TYPE, FindHeaderOrEmpty(req.headers, CONTENT_TYPE)>>,
                <<K_CONTENT_LENGTH, IF req.has_body THEN DecimalText(req.content_length) ELSE <<>> >>,
                <<K_SERVER_NAME, req.server_name>>,
                <<K_SERVER_PORT, req.server_port>>,
                <<K_SERVER_PROTOCOL, req.protocol>>,
                <<K_SERVER_SOFTWARE, SERVER_SOFTWARE>>,
                <<K_HTTPS, IF req.scheme = STR_https THEN STR_on ELSE <<>> >>,
                <<K_wsgi_url_scheme, req.scheme>> >>, 1)

\* for (const auto &[name, value] : req.headers), from item i on
RECURSIVE EnvironHeaders(_, _, _)
EnvironHeaders(headers, i, dict) ==
    IF i > Len(headers) THEN dict
    ELSE IF \/ HeaderMatch(headers[i].name, CONTENT_TYPE)
            \/ HeaderMatch(headers[i].name, CONTENT_LENGTH)
         THEN EnvironHeaders(headers, i + 1, dict)
         ELSE EnvironHeaders(headers, i + 1,
                             PyDict_SetItemString(dict, c_str(TranslateHeader(headers[i].name)),
                                                  native_string(headers[i].value)))

BuildEnviron(req) == EnvironHeaders(req.headers, 1, FixedEnviron(req))

----------------------------------------------------------------------------
(* Was::ProcessRequest and Was::Run: src/src/was.cxx *)

\* Mutant: the loop does not test what accept returned
LoopCondition_always(uri) == TRUE

\* while ((uri = was_simple_accept(was)))
LoopCondition(uri) == uri # "none"

\* Mutant: the method is not checked
MethodInvalid_never(w) == FALSE

\* method == HTTP_METHOD_INVALID
MethodInvalid(w) == ~w.method_valid

\* Mutant: an empty body is taken for an unknown length
InputUnknown_off_by_one(input_remaining) == input_remaining <= 0

\* input_remaining < 0
InputUnknown(input_remaining) == input_remaining < 0

\* The value the transport's getters return for an absent string
nullptr == <<-1>>

\* std::string_view::substr(pos) for pos = the position after the first ch
SubstrAfter(s, ch) ==
    LET colon == CHOOSE i \in 1..Len(s) : s[i] = ch /\ \A j \in 1..(i - 1) : s[j] # ch
    IN SubSeq(s, colon + 1, Len(s))

\* Mutant: the query starts after the '?'
Uri_split_drops_mark(uri) ==
    [path |-> SubstrBefore(uri, 63),
     query |-> IF \E i \in 1..Len(uri) : uri[i] = 63 THEN SubstrAfter(uri, 63) ELSE <<>>]

\* Uri::split: path is what precedes the first '?', query starts at it
Uri_split(uri) ==
    [path |-> SubstrBefore(uri, 63),
     query |-> IF \E i \in 1..Len(uri) : uri[i] = 63 THEN <<63>> \o SubstrAfter(uri, 63) ELSE <<>>]

\* std::make_unique<WasInputStream>(was, input_remaining) / no body
RequestBody(w) ==
    IF w.has_body THEN [has_body |-> TRUE, content_length |-> w.input_remaining]
    ELSE [has_body |-> FALSE, content_length |-> 0]

\* The headers the transport's iterator yields, in order
RequestHeaders(w) == w.headers

\* The designated initialisers of HttpRequest in Was::ProcessRequest
HttpRequestInit(w) ==
    [has_body |-> FALSE, content_length |-> 0,
     server_name |-> STR_localhost,
     server_port |-> STR_80,
     protocol |-> STR_HTTP_1_1,
     scheme |-> STR_http,
     uri |-> [path |-> IF w.path_info # nullptr THEN w.path_info ELSE Uri_split(w.uri_text).path,
              query |-> IF w.query_string # nullptr THEN w.query_string ELSE Uri_split(w.uri_text).query],
     headers |-> <<>>]

\* The body of the loop over the transport's header iterator, for one header
ScanHeader(req, elem) ==
    LET r1 == IF HeaderMatch(elem.name, X_CM4ALL_HTTPS) /\ elem.value = STR_on
              THEN [req EXCEPT !.scheme = STR_https] ELSE req
        r2 == IF HeaderMatch(elem.name, HOST)
              THEN LET r == [r1 EXCEPT !.server_name = SubstrBefore(elem.value, 58)]
                   IN IF \E i \in 1..Len(elem.value) : elem.value[i] = 58
                      THEN [r EXCEPT !.server_port = SubstrAfter(elem.value, 58)]
                      ELSE r
              ELSE r1
    IN [r2 EXCEPT !.headers = Append(r2.headers, elem)]

\* while ((elem = was_simple_iterator_next(it))), from header i on
RECURSIVE ScanHeaders(_, _, _)
ScanHeaders(headers, i, req) ==
    IF i > Len(headers) THEN req
    ELSE ScanHeaders(headers, i + 1, ScanHeader(req, headers[i]))

\* if (request.server_port.empty()) ...
DefaultPort(req) ==
    IF req.server_port = <<>>
    THEN [req EXCEPT !.server_port = IF req.scheme = STR_https THEN STR_443 ELSE STR_80]
    ELSE req

\* The request Was::ProcessRequest hands to the handler
HttpRequest(w) ==
    LET r == DefaultPort(ScanHeaders(RequestHeaders(w), 1, HttpRequestInit(w)))
        b == RequestBody(w)
    IN [r EXCEPT !.has_body = b.has_body, !.content_length = b.content_length]

\* No request was built
NoBody ==
    [has_body |-> FALSE, content_length |-> 0,
     server_name |-> <<>>, server_port |-> <<>>, protocol |-> <<>>, scheme |-> <<>>,
     uri |-> [path |-> <<>>, query |-> <<>>], headers |-> <<>>]

\* Mutant: the catch block does not abort
OnHandlerException_silent(cs) == cs

\* catch (std::exception &exc): the request is aborted
OnHandlerException(cs) == Append(cs, Call("abort", 0, NoHeader))

----------------------------------------------------------------------------
(* The request body: src/src/was.cxx, src/src/http.hxx, src/src/wsgi.cxx *)

READ_BUF_SIZE == 4096

\* The bytes of a request body of the declared length: byte i has the value i
BodyData(w) == IF w.has_body THEN [i \in 1..w.input_remaining |-> i] ELSE <<>>

\* No wsgi.input.read call was made yet
NoRead ==
    [count |-> 0, size |-> 0, reads |-> 0, rc |-> 0, result |-> <<>>, err |-> "none",
     before |-> <<>>, drained |-> FALSE, was_drained |-> FALSE]

\* What was_simple_read may return for a buffer of dest_size bytes: -2, -1,
\* 0 at the end of the body, or the number of bytes it delivered (it blocks
\* until it has at least one)
was_simple_read(dest_size, data) ==
    {-2, -1} \cup (IF Len(data) = 0 THEN {0} ELSE 1..Min(dest_size, Len(data)))

\* Mutant: a failure of the transport is reported as the end of the body
WasInputStream_Read_eof(n) ==
    [exc |-> "none", n |-> IF n < 0 THEN 0 ELSE n]

\* WasInputStream::Read: the result of was_simple_read, or an exception
WasInputStream_Read(n) ==
    IF n = -2 THEN [exc |-> "runtime_error", n |-> 0]
    ELSE IF n = -1 THEN [exc |-> "system_error", n |-> 0]
    ELSE [exc |-> "none", n |-> n]

\* stream->Read(dest): the outcomes of one call on the body stream, each with
\* what the transport returned (rc). The stream is
\* a WasInputStream when the request has a body and a NullInputStream, whose
\* Read returns 0, when it has none
StreamRead(has_body, dest_size, data) ==
    IF has_body
    THEN {[rc |-> n, exc |-> WasInputStream_Read(n).exc, n |-> WasInputStream_Read(n).n] :
             n \in was_simple_read(dest_size, data)}
    ELSE {[rc |-> 0, exc |-> "none", n |-> 0]}

\* catch (const std::exception &): PyErr_SetString(PyExc_IOError, ...)
ReadFailed(data, reads, rc) ==
    [err |-> "IOError", result |-> NotStr, rest |-> data, reads |-> reads, rc |-> rc]

\* The loop of read for a negative size, after `reads` calls of Read that
\* appended `ret`
RECURSIVE ReadLoop(_, _, _, _)
ReadLoop(has_body, data, ret, reads) ==
    UNION {IF r.exc # "none" THEN {ReadFailed(data, reads + 1, r.rc)}
           ELSE IF r.n > 0
           THEN ReadLoop(has_body, SubSeq(data, r.n + 1, Len(data)),
                         ret \o SubSeq(data, 1, r.n), reads + 1)
           ELSE {[err |-> "none", result |-> ret, rest |-> data, reads |-> reads + 1, rc |-> r.rc]}
           : r \in StreamRead(has_body, READ_BUF_SIZE, data)}

\* Mutant: read(0) reads like read(-1)
WsgiInputStream_read_all(size, has_body, data) ==
    IF size > 0
    THEN {IF r.exc # "none" THEN ReadFailed(data, 1, r.rc)
          ELSE [err |-> "none", result |-> SubSeq(data, 1, r.n),
                rest |-> SubSeq(data, r.n + 1, Len(data)), reads |-> 1, rc |-> r.rc]
          : r \in StreamRead(has_body, size, data)}
    ELSE ReadLoop(has_body, data, <<>>, 0)

\* WsgiInputStream::read(size): the outcomes of one call: the Python error it
\* sets, the bytes it returns, the bytes left in the transport and the number
\* of Read calls it made
WsgiInputStream_read(size, has_body, data) ==
    IF size = 0
    THEN {[err |-> "none", result |-> <<>>, rest |-> data, reads |-> 0, rc |-> 0]}
    ELSE IF size > 0
    THEN {IF r.exc # "none" THEN ReadFailed(data, 1, r.rc)
          ELSE [err |-> "none", result |-> SubSeq(data, 1, r.n),
                rest |-> SubSeq(data, r.n + 1, Len(data)), reads |-> 1, rc |-> r.rc]
          : r \in StreamRead(has_body, size, data)}
    ELSE ReadLoop(has_body, data, <<>>, 0)

----------------------------------------------------------------------------
(* WsgiRequestHandler::FindApp: src/src/wsgi.cxx *)

\* What PyObject_GetAttrString can find under a name: nothing, an object
\* that cannot be called, a callable, a coroutine object
AttrKinds == {"absent", "noncallable", "callable", "coroutine"}

PyCallable_Check(obj) == obj = "callable"

PyCoro_CheckExact(obj) == obj = "coroutine"

module_fallback == <<"app", "wsgi">>

app_fallback == <<"app", "application">>

\* for (const auto &name : module_fallback): the module the loop leaves
RECURSIVE ImportFallback(_, _, _)
ImportFallback(importable, i, module) ==
    IF i > Len(module_fallback) THEN module
    ELSE IF module_fallback[i] \in importable THEN module_fallback[i]
    ELSE ImportFallback(importable, i + 1, "null")

\* for (const auto &name : app_fallback): the object the loop leaves in app
RECURSIVE AttrFallback(_, _, _)
AttrFallback(attrs, i, app) ==
    IF i > Len(app_fallback) THEN app
    ELSE LET a == attrs[app_fallback[i]]
         IN IF a = "absent" \/ ~PyCallable_Check(a)
            THEN AttrFallback(attrs, i + 1, a)
            ELSE a

\* FindApp(module_name, app_name) in a process where the modules of
\* `importable` can be imported and the module found has the attributes
\* `attrs`: what it returns, or that it throws
FindApp(module_name, app_name, importable, attrs) ==
    LET threw == [outcome |-> "threw", app |-> "absent"]
        module == IF module_name # "none"
                  THEN (IF module_name \in importable THEN module_name ELSE "null")
                  ELSE ImportFallback(importable, 1, "null")
        app == IF app_name # "none" THEN attrs[app_name]
               ELSE AttrFallback(attrs, 1, "absent")
    IN IF module = "null" THEN threw
       ELSE IF app = "absent" THEN threw
       ELSE IF PyCoro_CheckExact(app) THEN threw
       ELSE [outcome |-> "returned", app |-> app]

\* FindApp has returned a callable
Started ==
    [module_name |-> "none", app_name |-> "none", importable |-> {"app"},
     attrs |-> [n \in {"app", "application", "x"} |-> IF n = "app" THEN "callable" ELSE "absent"],
     result |-> [outcome |-> "returned", app |-> "callable"]]

\* The command lines and module contents FindApp is run on
StartupArgs ==
    [module_name : {"none", "m"}, app_name : {"none", "x"},
     importable : SUBSET {"m", "app", "wsgi"},
     attrs : [{"app", "application", "x"} -> AttrKinds],
     result : {[outcome |-> "pending", app |-> "absent"]}]

----------------------------------------------------------------------------
(* Native strings: Py::uc_from_latin1 (src/src/python.cxx) and
   from_native_string (src/src/wsgi.cxx). Here a byte is a C++ char of the
   target platforms, -128..127, and a text string is a sequence of code
   points. *)

MaxStrLen == 2

\* static_cast<unsigned char>(c): how PyUnicode_DecodeLatin1 reads a char
to_unsigned_char(c) == c % 256

\* static_cast<char>(ch) of a code point up to 0xFF
to_char(ch) == IF ch > 127 THEN ch - 256 ELSE ch

\* PyUnicode_DecodeLatin1: every byte is the code point of its unsigned value
uc_from_latin1(chars) == [i \in 1..Len(chars) |-> to_unsigned_char(chars[i])]

\* The loop of from_native_string over str[i..]: the bytes pushed so far, or
\* the value error at the first code point above 0xFF
RECURSIVE from_native_string_loop(_, _, _)
from_native_string_loop(str, i, result) ==
    IF i > Len(str) THEN [ok |-> TRUE, bytes |-> result, err |-> "none"]
    ELSE IF str[i] > 255 THEN [ok |-> FALSE, bytes |-> <<>>, err |-> "ValueError"]
    ELSE from_native_string_loop(str, i + 1, Append(result, to_char(str[i])))

\* A variant that pushes the code point itself
from_native_string_no_cast(str) ==
    IF \E i \in 1..Len(str) : str[i] > 255
    THEN [ok |-> FALSE, bytes |-> <<>>, err |-> "ValueError"]
    ELSE [ok |-> TRUE, bytes |-> str, err |-> "none"]

from_native_string(str) == from_native_string_loop(str, 1, <<>>)

\* Strings of up to n bytes over an alphabet
Strings(alphabet, n) == UNION {[1..k -> alphabet] : k \in 0..n}

NoConv == [op |-> "none", from_chars |-> FALSE, chars |-> <<>>, text |-> <<>>,
           result |-> [ok |-> FALSE, bytes |-> <<>>, err |-> "none"]]

\* The byte strings given to uc_from_latin1 and the text strings an
\* application gives to from_native_string: NUL, ASCII, the ends of the char
\* range, U+0100, a surrogate and the last code point
ConvArgs ==
    {[NoConv EXCEPT !.op = "bytes", !.from_chars = TRUE, !.chars = b] :
        b \in Strings({-128, -1, 0, 65, 127}, MaxStrLen)}
    \cup {[NoConv EXCEPT !.op = "text", !.text = t] :
             t \in Strings({0, 127, 128, 255, 256, 55296, 1114111}, MaxStrLen)}

----------------------------------------------------------------------------
(* What the environment may supply *)

S_200 == <<50, 48, 48, 32, 79, 75>>      \* "200 OK"
S_404 == <<52, 48, 52, 32, 78, 70>>      \* "404 NF"
S_999 == <<57, 57, 57, 32, 88>>          \* "999 X"
S_abc == <<97, 98, 99>>                  \* "abc"
S_0   == <<48, 32, 90>>                  \* "0 Z"

StatusArgs == {S_200, S_404, S_999, S_abc, S_0}

H_XA  == [name |-> <<88, 45, 65>>, value |-> <<118>>]          \* X-A: v
H_XB  == [name |-> <<88, 45, 66>>, value |-> <<119>>]          \* X-B: w
H_CL0 == [name |-> CONTENT_LENGTH, value |-> <<48>>]           \* Content-Length: 0
H_cl1 == [name |-> Lower(CONTENT_LENGTH), value |-> <<49>>]    \* content-length: 1
H_CLx == [name |-> CONTENT_LENGTH, value |-> <<120>>]          \* Content-Length: x
H_TE  == [name |-> <<84, 69>>, value |-> <<118>>]              \* TE: v
H_bad == [name |-> <<65, 32, 66>>, value |-> <<118>>]          \* "A B": v

HeaderLists ==
    { <<>>, <<H_XA, H_CL0>>, <<H_cl1, H_XB>>, <<H_XA, H_bad>>, <<H_CL0, H_TE>>, <<H_CLx>> }

ExcInfoArgs == {"none", "valid", "invalid"}

W_invalid == [uri |-> "/", uri_text |-> <<47>>, path_info |-> nullptr, query_string |-> nullptr, headers |-> <<>>, method_valid |-> FALSE, has_body |-> FALSE, input_remaining |-> -1]
W_get     == [uri |-> "/", uri_text |-> <<47>>, path_info |-> nullptr, query_string |-> nullptr, headers |-> <<>>, method_valid |-> TRUE, has_body |-> FALSE, input_remaining |-> -1]
W_unknown == [uri |-> "/", uri_text |-> <<47>>, path_info |-> nullptr, query_string |-> nullptr, headers |-> <<>>, method_valid |-> TRUE, has_body |-> TRUE, input_remaining |-> -1]
W_empty   == [uri |-> "/", uri_text |-> <<47>>, path_info |-> nullptr, query_string |-> nullptr, headers |-> <<>>, method_valid |-> TRUE, has_body |-> TRUE, input_remaining |-> 0]
W_put     == [uri |-> "/", uri_text |-> <<47>>, path_info |-> nullptr, query_string |-> nullptr, headers |-> <<>>, method_valid |-> TRUE, has_body |-> TRUE, input_remaining |-> 2]

WasRequests == {W_invalid, W_get, W_unknown, W_empty, W_put}

\* was_simple_accept returned null
W_none == [uri |-> "none", uri_text |-> <<47>>, path_info |-> nullptr, query_string |-> nullptr, headers |-> <<>>, method_valid |-> FALSE, has_body |-> FALSE, input_remaining |-> -1]

RH_XFooBar == [name |-> <<88, 45, 70, 111, 111, 45, 66, 97, 114>>, value |-> <<97>>]      \* X-Foo-Bar: a
RH_xfoobar == [name |-> <<120, 45, 102, 111, 111, 45, 98, 97, 114>>, value |-> <<98>>]   \* x-foo-bar: b
RH_CT      == [name |-> CONTENT_TYPE, value |-> <<116>>]                         \* Content-Type: t
RH_ct      == [name |-> Lower(CONTENT_TYPE), value |-> <<117>>]                  \* content-type: u
RH_CL      == [name |-> CONTENT_LENGTH, value |-> <<53>>]                        \* Content-Length: 5
RH_KCT     == [name |-> K_CONTENT_TYPE, value |-> <<101>>]                       \* CONTENT_TYPE: e

\* The headers the transport delivers in the runs that vary them: names the
\* gateway treats specially in several spellings, names that merely resemble
\* them, and Host values with a port, without one, with an empty one and with
\* two colons.
RequestHeaderPool ==
    {RH_XFooBar, RH_xfoobar, RH_CT, RH_ct, RH_CL, RH_KCT,
     [name |-> Lower(K_CONTENT_LENGTH), value |-> <<57>>],          \* content_length: 9
     [name |-> HOST, value |-> <<104, 58, 56>>],                    \* Host: h:8
     [name |-> Lower(HOST), value |-> <<104>>],                     \* host: h
     [name |-> HOST, value |-> <<103, 58>>],                        \* Host: g:
     [name |-> HOST, value |-> <<104, 58, 56, 58, 57>>],            \* Host: h:8:9
     [name |-> X_CM4ALL_HTTPS, value |-> STR_on],                   \* X-CM4all-HTTPS: on
     [name |-> Lower(X_CM4ALL_HTTPS), value |-> STR_on],            \* x-cm4all-https: on
     [name |-> X_CM4ALL_HTTPS, value |-> <<111, 102, 102>>],        \* X-CM4all-HTTPS: off
     [name |-> <<72, 116, 116, 112, 115>>, value |-> STR_on]}       \* Https: on

RequestHeaderLists == UNION {[1..n -> RequestHeaderPool] : n \in 0..MaxRequestHeaders}

\* Spec varies the application: every start_response argument above, chunks
\* of up to MaxChunkLen bytes, a transport that may fail, one kind of request.
AppEnv ==
    [requests |-> {W_get}, max_requests |-> MaxRequests,
     status |-> StatusArgs, headers |-> HeaderLists, exc_info |-> ExcInfoArgs,
     max_start_response |-> MaxStartResponse,
     max_chunks |-> MaxChunks, max_chunk_len |-> MaxChunkLen,
     has_close |-> {FALSE}, retains |-> FALSE]

\* SpecLoop varies the requests: every kind of request, a small application.
LoopEnv ==
    [requests |-> WasRequests, max_requests |-> LoopMaxRequests,
     status |-> {S_200, S_999}, headers |-> {<<>>, <<H_XA, H_CL0>>, <<H_cl1, H_XB>>},
     exc_info |-> {"none"},
     max_start_response |-> MaxStartResponse,
     max_chunks |-> LoopMaxChunks, max_chunk_len |-> LoopMaxChunkLen,
     has_close |-> BOOLEAN, retains |-> TRUE]

\* SpecEnviron varies the request headers: requests with and without a body,
\* an application that raises at once.
EnvironEnv ==
    [requests |-> {[w EXCEPT !.headers = h] : w \in {W_get, W_put}, h \in RequestHeaderLists},
     max_requests |-> 1,
     status |-> {S_200}, headers |-> {<<>>}, exc_info |-> {"none"},
     max_start_response |-> MaxStartResponse,
     max_chunks |-> LoopMaxChunks, max_chunk_len |-> LoopMaxChunkLen,
     has_close |-> {FALSE}, retains |-> FALSE]

\* SpecUri varies the request URI: every string of '/', 'a' and '?' of up to
\* MaxUriLen bytes, with and without PATH_INFO and QUERY_STRING parameters of
\* the transport; an application that raises at once.
UriEnv ==
    [requests |-> {[W_get EXCEPT !.uri_text = u, !.path_info = p, !.query_string = q] :
                       u \in Strings({47, 97, 63}, MaxUriLen),
                       p \in {nullptr, <<47, 112>>}, q \in {nullptr, <<113>>}},
     max_requests |-> 1,
     status |-> {S_200}, headers |-> {<<>>}, exc_info |-> {"none"},
     max_start_response |-> MaxStartResponse,
     max_chunks |-> LoopMaxChunks, max_chunk_len |-> LoopMaxChunkLen,
     has_close |-> {FALSE}, retains |-> FALSE]

Upper(s) == [i \in 1..Len(s) |-> ToUpperASCII(s[i])]

\* The hop-by-hop names in three spellings
HopByHopArgs ==
    LET canonical == {
      <<67, 111, 110, 110, 101, 99, 116, 105, 111, 110>>,   \* Connection
      <<75, 101, 101, 112, 45, 65, 108, 105, 118, 101>>,   \* Keep-Alive
      <<80, 114, 111, 120, 121, 45, 65, 117, 116, 104, 101, 110, 116, 105, 99, 97, 116, 101>>,   \* Proxy-Authenticate
      <<80, 114, 111, 120, 121, 45, 65, 117, 116, 104, 111, 114, 105, 122, 97, 116, 105, 111, 110>>,   \* Proxy-Authorization
      <<84, 69>>,   \* TE
      <<84, 114, 97, 105, 108, 101, 114>>,   \* Trailer
      <<84, 114, 97, 110, 115, 102, 101, 114, 45, 69, 110, 99, 111, 100, 105, 110, 103>>,   \* Transfer-Encoding
      <<85, 112, 103, 114, 97, 100, 101>> }   \* Upgrade
    IN canonical \cup {Lower(n) : n \in canonical} \cup {Upper(n) : n \in canonical}

\* One-header lists for start_response: every name of one character (code
\* points 0 to 256) and every short name over 'A', '-', ':' and ' ', with a
\* valid value; every value of one character and every short value over 'a',
\* ' ', HTAB and LF, with a valid name; and the hop-by-hop names and
\* Content-Length in several spellings, alone and after another header.
HeaderArgs ==
    {<<[name |-> n, value |-> <<118>>]>> :
        n \in {<<c>> : c \in 0..256} \cup Strings({65, 45, 58, 32}, MaxHeaderLen)}
    \cup {<<[name |-> <<88>>, value |-> v]>> :
             v \in {<<c>> : c \in 0..256} \cup Strings({97, 32, 9, 10}, MaxHeaderLen)}
    \cup {<<[name |-> n, value |-> <<118>>]>> : n \in HopByHopArgs}
    \cup {<<H_XA, [name |-> n, value |-> <<118>>]>> : n \in HopByHopArgs}
    \cup {<<H_CL0>>, <<H_cl1>>, <<[name |-> Upper(CONTENT_LENGTH), value |-> <<50>>]>>}

\* SpecHeader varies the headers handed to start_response: one request, one
\* start_response call without exc_info.
HeaderEnv ==
    [requests |-> {W_get}, max_requests |-> 1,
     status |-> {S_200}, headers |-> HeaderArgs, exc_info |-> {"none"},
     max_start_response |-> 1,
     max_chunks |-> LoopMaxChunks, max_chunk_len |-> LoopMaxChunkLen,
     has_close |-> {FALSE}, retains |-> FALSE]

\* SpecInput varies the request body and the reads: requests without a body
\* and with bodies of 0 to MaxBodyLen bytes, an application that calls
\* wsgi.input.read with no size, 0 and sizes up to one more than the body.
InputEnv ==
    [requests |-> {W_get} \cup {[W_put EXCEPT !.input_remaining = n] : n \in 0..MaxBodyLen},
     max_requests |-> 1,
     read_sizes |-> -1..(MaxBodyLen + 1), max_reads |-> MaxReads,
     status |-> {S_200}, headers |-> {<<>>}, exc_info |-> {"none"},
     max_start_response |-> MaxStartResponse,
     max_chunks |-> LoopMaxChunks, max_chunk_len |-> LoopMaxChunkLen,
     has_close |-> {FALSE}, retains |-> FALSE]

----------------------------------------------------------------------------
(* The state machine *)

\* The state of the request machinery before the first request
InitRequest ==
    /\ phase = "none"
    /\ ndebug \in BOOLEAN
    /\ accepted = 0
    /\ was = [W_get EXCEPT !.uri = "unset"]
    /\ request = NoBody
    /\ handler_calls = 0
    /\ response = HttpResponse0
    /\ headers_sent = FALSE
    /\ content_length_left = 0
    /\ calls = <<>>
    /\ pyerr = "none"
    /\ sr_calls = 0
    /\ chunks = 0
    /\ send_headers_count = 0
    /\ sr_produced = 0
    /\ exc_seen = FALSE
    /\ assert_raised = FALSE
    /\ has_close = FALSE
    /\ close_calls = 0
    /\ capsule = "none"
    /\ retained = "none"
    /\ environ = EmptyEnviron
    /\ input = <<>>
    /\ rd = NoRead
    /\ ev = NoEvent

\* The handler has its application and Was::Run is about to accept
Init ==
    /\ pc = "accept"
    /\ startup = Started
    /\ conv = NoConv
    /\ driver = "was"
    /\ InitRequest

Responder == [headers_sent |-> headers_sent, content_length_left |-> content_length_left]

\* A new request: a fresh WasResponder, and nothing of the last request's
\* bookkeeping
NewRequest(w) ==
    /\ accepted' = accepted + 1
    /\ was' = w
    /\ response' = HttpResponse0
    /\ headers_sent' = Responder0.headers_sent
    /\ content_length_left' = Responder0.content_length_left
    /\ sr_calls' = 0
    /\ chunks' = 0
    /\ send_headers_count' = 0
    /\ sr_produced' = 0
    /\ exc_seen' = FALSE
    /\ assert_raised' = FALSE
    /\ has_close' = FALSE
    /\ close_calls' = 0
    /\ rd' = NoRead
    /\ UNCHANGED <<ndebug, startup, conv, driver>>

\* Was::ProcessRequest up to the call of the application
ProcessRequest(w) ==
    /\ NewRequest(w)
    /\ IF MethodInvalid(w)
       THEN /\ calls' = <<Call("status", HTTP_STATUS_METHOD_NOT_ALLOWED, NoHeader)>>
            /\ request' = NoBody
            /\ handler_calls' = 0
            /\ pc' = "accept"
            /\ phase' = "none"
            /\ ev' = Event("reject_405")
            /\ capsule' = "none"
            /\ environ' = EmptyEnviron
            /\ input' = <<>>
            /\ UNCHANGED pyerr
       ELSE IF w.has_body /\ InputUnknown(w.input_remaining)
       THEN /\ calls' = <<Call("abort", 0, NoHeader)>>
            /\ request' = NoBody
            /\ handler_calls' = 0
            /\ pc' = "accept"
            /\ phase' = "none"
            /\ ev' = Event("abort_unknown_length")
            /\ capsule' = "none"
            /\ environ' = EmptyEnviron
            /\ input' = <<>>
            /\ UNCHANGED pyerr
       ELSE /\ request' = HttpRequest(w)
            /\ handler_calls' = 1
            /\ environ' = BuildEnviron(HttpRequest(w))
            /\ input' = BodyData(w)
            /\ IF pyerr # "none"
               THEN \* if (PyErr_Occurred()) Py::rethrow_python_exception();
                    /\ calls' = OnHandlerException(<<>>)
                    /\ pyerr' = "none"
                    /\ pc' = "accept"
                    /\ phase' = "none"
                    /\ ev' = [Event("process_pending_error") EXCEPT !.threw = TRUE, !.err = pyerr]
                    /\ capsule' = "none"
               ELSE /\ calls' = <<>>
                    /\ pc' = "app"
                    /\ phase' = "call"
                    /\ ev' = Event("app_called")
                    /\ capsule' = PyCapsule_New
                    /\ UNCHANGED pyerr

\* One turn of the loop of Was::Run
RunIn(env) ==
    /\ pc = "accept"
    /\ driver = "was"
    /\ \E uri \in {"none", "/"} :
          IF LoopCondition(uri)
          THEN /\ accepted < env.max_requests
               /\ \E w \in env.requests : ProcessRequest([w EXCEPT !.uri = uri])
               /\ retained' = IF env.retains /\ capsule # "none" THEN capsule ELSE retained
          ELSE /\ pc' = "done"
               /\ was' = [W_none EXCEPT !.uri = uri]
               /\ ev' = Event("accept_none")
               /\ UNCHANGED <<phase, ndebug, has_close, close_calls, capsule, retained, environ, input, rd, startup, conv, driver, accepted, request, handler_calls,
                              response, headers_sent, content_length_left, calls,
                              pyerr, sr_calls, chunks, send_headers_count,
                              sr_produced, exc_seen, assert_raised>>

\* How a step of Process ends, given what it did on the responder:
\* r.outcome "ok": Process goes on at (npc, nphase) with error indicator perr_ok;
\* "threw": Was::ProcessRequest catches and aborts, indicator perr_threw;
\* "crashed": the process is gone.
Outcome(r, npc, nphase, perr_ok, perr_threw) ==
    /\ headers_sent' = r.rs.headers_sent
    /\ content_length_left' = r.rs.content_length_left
    /\ send_headers_count' = send_headers_count + r.sh
    /\ IF r.outcome = "ok"
       THEN /\ calls' = calls \o r.made
            /\ pc' = npc
            /\ phase' = nphase
            /\ pyerr' = perr_ok
       ELSE IF r.outcome = "threw" /\ driver = "stdio"
       THEN \* the exception leaves request() and main returns 1
            /\ calls' = calls \o r.made
            /\ pc' = "exited"
            /\ phase' = "none"
            /\ pyerr' = perr_threw
       ELSE IF r.outcome = "threw"
       THEN /\ calls' = OnHandlerException(calls \o r.made)
            /\ pc' = "accept"
            /\ phase' = "none"
            /\ pyerr' = perr_threw
       ELSE /\ calls' = calls \o r.made
            /\ pc' = "crashed"
            /\ phase' = "none"
            /\ pyerr' = perr_threw

Nothing == [made |-> <<>>, outcome |-> "ok", rs |-> Responder, sh |-> 0]

Threw == [made |-> <<>>, outcome |-> "threw", rs |-> Responder, sh |-> 0]

\* The transport calls a step would make if it has to send the headers now
HeaderCallsDue == 
    IF NeedSendHeaders(Responder) /\ response.status # 0
    THEN Len(SendHeadersCalls(response)) ELSE 0

\* A call of start_response(status, headers[, exc_info]) that got its context:
\* the call itself and, for Content-Length 0, SendHeaders
StartResponseStep(env, op) ==
    /\ \E status \in env.status, headers \in env.headers, exc \in env.exc_info :
         LET sr == StartResponse(status, headers, exc, response, headers_sent)
             send == sr.err = "none" /\ SendsImmediately(sr.response)
         IN \E fail \in 0..(IF send THEN Len(SendHeadersCalls(sr.response)) ELSE 0) :
              LET r == IF send THEN HttpResponder_SendHeaders(sr.response, Responder, fail, ndebug)
                       ELSE Nothing
              IN /\ response' = sr.response
                 /\ Outcome(r, pc, phase, sr.err, "none")
                 /\ sr_calls' = sr_calls + 1
                 /\ sr_produced' = sr_produced + (IF sr.response # response THEN 1 ELSE 0)
                 /\ exc_seen' = (exc_seen \/ exc # "none")
                 /\ assert_raised' = (assert_raised \/ sr.err = "AssertionError")
                 /\ ev' = [Event(op) EXCEPT !.exc = exc, !.err = sr.err,
                                                          !.threw = (r.outcome = "threw"),
                                                          !.h = headers]
                 /\ UNCHANGED <<ndebug, has_close, close_calls, capsule, retained, environ, input, rd, startup, conv, driver, accepted, was, request, handler_calls, chunks>>

\* The application calls the start_response callable of this request; its
\* capsule is valid as long as Process runs
AppStartResponseIn(env) ==
    /\ pc = "app"
    /\ pyerr = "none"
    /\ sr_calls < env.max_start_response
    /\ PyCapsule_GetPointer(capsule)
    /\ StartResponseStep(env, "start_response")

\* The application calls a start_response callable it kept from an earlier
\* request.  With the capsule's name reset the call fails with RuntimeError.
\* Otherwise ctx points to objects of a Process call that has returned, and
\* what happens is undefined: the process may crash, the call may touch
\* memory nobody uses any more, or, the frame of Process being at the same
\* place for every request, it may act on the records of the current request.
StaleStartResponseIn(env) ==
    /\ pc = "app"
    /\ pyerr = "none"
    /\ sr_calls < env.max_start_response
    /\ retained # "none"
    /\ IF ~PyCapsule_GetPointer(retained)
       THEN /\ pyerr' = "RuntimeError"
            /\ sr_calls' = sr_calls + 1
            /\ ev' = [Event("stale_start_response") EXCEPT !.err = "RuntimeError"]
            /\ UNCHANGED <<pc, phase, ndebug, has_close, close_calls, capsule, retained, environ, input, rd, startup, conv, driver, accepted, was, request,
                           handler_calls, response, headers_sent, content_length_left,
                           calls, chunks, send_headers_count, sr_produced, exc_seen,
                           assert_raised>>
       ELSE \/ /\ pc' = "crashed"
               /\ phase' = "none"
               /\ sr_calls' = sr_calls + 1
               /\ ev' = [Event("stale_start_response") EXCEPT !.err = "crashed"]
               /\ UNCHANGED <<ndebug, has_close, close_calls, capsule, retained, environ, input, rd, startup, conv, driver, accepted, was, request,
                              handler_calls, response, headers_sent, content_length_left,
                              calls, pyerr, chunks, send_headers_count, sr_produced,
                              exc_seen, assert_raised>>
            \/ /\ sr_calls' = sr_calls + 1
               /\ ev' = [Event("stale_start_response") EXCEPT !.err = "unnoticed"]
               /\ UNCHANGED <<pc, phase, ndebug, has_close, close_calls, capsule, retained, environ, input, rd, startup, conv, driver, accepted, was, request,
                              handler_calls, response, headers_sent, content_length_left,
                              calls, pyerr, chunks, send_headers_count, sr_produced,
                              exc_seen, assert_raised>>
            \/ StartResponseStep(env, "stale_start_response")

\* The application catches the exception start_response raised
AppCatch ==
    /\ pc = "app"
    /\ pyerr # "none"
    /\ pyerr' = "none"
    /\ ev' = [Event("app_catch") EXCEPT !.err = pyerr]
    /\ UNCHANGED <<pc, phase, ndebug, has_close, close_calls, capsule, retained, environ, input, rd, startup, conv, driver, accepted, was, request, handler_calls, response,
                   headers_sent, content_length_left, calls, sr_calls, chunks,
                   send_headers_count, sr_produced, exc_seen, assert_raised>>

\* The application calls environ["wsgi.input"].read(size)
AppReadIn(env) ==
    /\ pc = "app"
    /\ pyerr = "none"
    /\ rd.count < env.max_reads
    /\ \E size \in env.read_sizes :
       \E o \in WsgiInputStream_read(size, request.has_body, input) :
          /\ input' = o.rest
          /\ rd' = [count |-> rd.count + 1, size |-> size, reads |-> o.reads, rc |-> o.rc,
                    result |-> o.result, err |-> o.err, before |-> input,
                    drained |-> (rd.drained \/ (size < 0 /\ o.err = "none")),
                    was_drained |-> rd.drained]
          /\ pyerr' = o.err
          /\ ev' = [Event("read") EXCEPT !.err = o.err]
    /\ UNCHANGED <<pc, phase, ndebug, has_close, close_calls, capsule, retained, environ, startup, conv, driver,
                   accepted, was, request, handler_calls, response, headers_sent,
                   content_length_left, calls, sr_calls, chunks, send_headers_count,
                   sr_produced, exc_seen, assert_raised>>

\* The application callable returns its result; Process asks it for an
\* iterator (which fails on a result that is not iterable) and for the first
\* item
AppReturnIn(env) ==
    /\ pc = "app"
    /\ phase = "call"
    /\ pyerr = "none"
    /\ \E close \in env.has_close : has_close' = close
    /\ \E iterable \in BOOLEAN :
         /\ Outcome(IF iterable THEN Nothing ELSE Threw, "app", "iter", "none", "none")
         /\ ev' = [Event("app_return") EXCEPT !.threw = ~iterable,
                                               !.err = IF iterable THEN "none" ELSE "TypeError"]
    /\ UNCHANGED <<ndebug, close_calls, capsule, retained, environ, input, rd, startup, conv, driver, accepted, was, request, handler_calls, response, sr_calls,
                   chunks, sr_produced, exc_seen, assert_raised>>

\* The exception the application lets out: the one start_response raised, or
\* one of its own
Raised == IF pyerr = "none" THEN "AppError" ELSE pyerr

\* The application callable raises: PyObject_CallObject returns null and
\* Process rethrows
AppRaiseCall ==
    /\ pc = "app"
    /\ phase = "call"
    /\ Outcome(Threw, pc, phase, "none", "none")
    /\ ev' = [Event("app_raise_call") EXCEPT !.threw = TRUE, !.err = Raised]
    /\ UNCHANGED <<ndebug, has_close, close_calls, capsule, retained, environ, input, rd, startup, conv, driver, accepted, was, request, handler_calls, response, sr_calls,
                   chunks, sr_produced, exc_seen, assert_raised>>

\* The iterator yields a chunk of `size` bytes
AppYieldIn(env) ==
    /\ pc = "app"
    /\ phase = "iter"
    /\ pyerr = "none"
    /\ chunks < env.max_chunks
    /\ \E size \in 0..env.max_chunk_len :
       \E fail \in 0..(HeaderCallsDue + 1) :
         LET r == ProcessChunk(response, Responder, size, fail, ndebug)
         IN /\ Outcome(r, "app", "iter", "none", "none")
            /\ ev' = [Event("app_yield") EXCEPT !.threw = (r.outcome = "threw"), !.n = size]
    /\ chunks' = chunks + 1
    /\ UNCHANGED <<ndebug, has_close, close_calls, capsule, retained, environ, input, rd, startup, conv, driver, accepted, was, request, handler_calls, response, sr_calls,
                   sr_produced, exc_seen, assert_raised>>

\* if (PyObject_HasAttrString(result, "close"))
PyObject_HasAttrString_close == has_close

\* The iterator is exhausted: PyIter_Next returns null without an error.
\* Process makes sure of the headers, calls close() if the result has one
\* (which may raise), and resets the capsule's name.
AppExhaust ==
    /\ pc = "app"
    /\ phase = "iter"
    /\ pyerr = "none"
    /\ \E fail \in 0..HeaderCallsDue, close_raises \in BOOLEAN :
         LET eh == EnsureHeaders(response, Responder, fail, ndebug)
             close_called == eh.outcome = "ok" /\ PyObject_HasAttrString_close
             r == IF close_called /\ close_raises THEN [eh EXCEPT !.outcome = "threw"] ELSE eh
         IN /\ close_raises => close_called
            /\ Outcome(r, "accept", "none", "none", "none")
            /\ close_calls' = close_calls + (IF close_called THEN 1 ELSE 0)
            /\ capsule' = IF r.outcome = "ok" THEN PyCapsule_SetName_nullptr ELSE capsule
            /\ ev' = [Event("app_exhaust") EXCEPT !.threw = (r.outcome = "threw"),
                                                  !.err = IF close_called /\ close_raises
                                                          THEN "CloseError" ELSE "none"]
    /\ UNCHANGED <<ndebug, has_close, retained, environ, input, rd, startup, conv, driver, accepted, was, request, handler_calls, response, sr_calls,
                   chunks, sr_produced, exc_seen, assert_raised>>

\* The iterator raises: PyIter_Next returns null with the error set.  The
\* loop ends, the headers are made sure of, and only then Process rethrows.
AppRaiseIter ==
    /\ pc = "app"
    /\ phase = "iter"
    /\ \E fail \in 0..HeaderCallsDue :
         LET r == EnsureHeaders(response, Responder, fail, ndebug)
             rethrown == [r EXCEPT !.outcome = IF @ = "ok" THEN "threw" ELSE @]
         IN /\ Outcome(rethrown, pc, phase, "none",
                       IF r.outcome = "ok" THEN "none" ELSE Raised)
            /\ ev' = [Event("app_raise_iter") EXCEPT !.threw = (r.outcome # "crashed"),
                                                      !.err = Raised]
    /\ UNCHANGED <<ndebug, has_close, close_calls, capsule, retained, environ, input, rd, startup, conv, driver, accepted, was, request, handler_calls, response, sr_calls,
                   chunks, sr_produced, exc_seen, assert_raised>>

Run == RunIn(AppEnv)
AppReturn == AppReturnIn(AppEnv)
AppStartResponse == AppStartResponseIn(AppEnv)
AppYield == AppYieldIn(AppEnv)

Next ==
    \/ Run
    \/ AppStartResponse
    \/ AppCatch
    \/ AppReturn
    \/ AppRaiseCall
    \/ AppYield
    \/ AppExhaust
    \/ AppRaiseIter

Spec == Init /\ [][Next]_vars

LoopRun == RunIn(LoopEnv)
LoopReturn == AppReturnIn(LoopEnv)
LoopStale == StaleStartResponseIn(LoopEnv)
LoopStartResponse == AppStartResponseIn(LoopEnv)
LoopYield == AppYieldIn(LoopEnv)

NextLoop ==
    \/ LoopRun
    \/ LoopStartResponse
    \/ LoopStale
    \/ AppCatch
    \/ LoopReturn
    \/ AppRaiseCall
    \/ LoopYield
    \/ AppExhaust
    \/ AppRaiseIter

SpecLoop == Init /\ [][NextLoop]_vars

EnvironRun == RunIn(EnvironEnv)

NextEnviron ==
    \/ EnvironRun
    \/ AppRaiseCall

SpecEnviron == Init /\ [][NextEnviron]_vars

UriRun == RunIn(UriEnv)

NextUri ==
    \/ UriRun
    \/ AppRaiseCall

SpecUri == Init /\ [][NextUri]_vars

HeaderRun == RunIn(HeaderEnv)

HeaderStartResponse == AppStartResponseIn(HeaderEnv)

NextHeader ==
    \/ HeaderRun
    \/ HeaderStartResponse
    \/ AppRaiseCall

SpecHeader == Init /\ [][NextHeader]_vars

InputRun == RunIn(InputEnv)

InputRead == AppReadIn(InputEnv)

NextInput ==
    \/ InputRun
    \/ InputRead
    \/ AppCatch
    \/ AppRaiseCall

SpecInput == Init /\ [][NextInput]_vars

\* The process before FindApp has run
InitFindApp ==
    /\ pc = "start"
    /\ startup \in StartupArgs
    /\ conv = NoConv
    /\ driver = "was"
    /\ InitRequest

\* main: the handler is constructed from what FindApp returns; an exception
\* ends the process
FindAppStep ==
    /\ pc = "start"
    /\ LET r == FindApp(startup.module_name, startup.app_name, startup.importable, startup.attrs)
       IN /\ startup' = [startup EXCEPT !.result = r]
          /\ pc' = IF r.outcome = "returned" THEN "accept" ELSE "exited"
          /\ ev' = [Event("find_app") EXCEPT !.threw = (r.outcome = "threw")]
    /\ UNCHANGED <<phase, ndebug, has_close, close_calls, capsule, retained, environ, input, rd,
                   accepted, was, request, handler_calls, response, headers_sent,
                   content_length_left, calls, pyerr, sr_calls, chunks, send_headers_count,
                   sr_produced, exc_seen, assert_raised, conv, driver>>

NextFindApp == FindAppStep

SpecFindApp == InitFindApp /\ [][NextFindApp]_vars

\* The two requests of the stdio test mode: GET / without a body, PUT / with
\* a JSON body of 16 bytes
StdioRequests ==
    <<[W_get EXCEPT !.headers = <<>>],
      [W_put EXCEPT !.input_remaining = 16,
                    !.headers = <<[name |-> CONTENT_TYPE, value |-> <<106>>],
                                  [name |-> CONTENT_LENGTH, value |-> <<49, 54>>]>>]>>

\* The HttpRequest that request() of main builds
StdioHttpRequest(w) ==
    [NoBody EXCEPT !.protocol = STR_HTTP_1_1, !.scheme = STR_http,
                   !.uri = Uri_split(w.uri_text), !.headers = w.headers,
                   !.has_body = w.has_body,
                   !.content_length = IF w.has_body THEN w.input_remaining ELSE 0]

\* The application of the stdio test runs
StdioEnv ==
    [requests |-> {}, max_requests |-> Len(StdioRequests),
     status |-> {S_200, S_999}, headers |-> {<<>>, <<H_XA, H_CL0>>, <<H_cl1>>}, exc_info |-> {"none", "valid"},
     max_start_response |-> MaxStartResponse,
     max_chunks |-> MaxChunks, max_chunk_len |-> MaxChunkLen,
     has_close |-> {FALSE}, retains |-> FALSE]

\* main with a terminal on stdin: the handler is used through request()
InitStdio ==
    /\ pc = "accept"
    /\ startup = Started
    /\ conv = NoConv
    /\ driver = "stdio"
    /\ InitRequest

\* request(): a PrintResponder is made and Process is called with it
StdioRequest ==
    /\ pc = "accept"
    /\ driver = "stdio"
    /\ accepted < Len(StdioRequests)
    /\ LET w == StdioRequests[accepted + 1]
       IN /\ NewRequest(w)
          /\ request' = StdioHttpRequest(w)
          /\ handler_calls' = 1
          /\ environ' = BuildEnviron(StdioHttpRequest(w))
          /\ input' = BodyData(w)
          /\ IF pyerr # "none"
             THEN /\ calls' = <<>>
                  /\ pyerr' = "none"
                  /\ pc' = "exited"
                  /\ phase' = "none"
                  /\ ev' = [Event("process_pending_error") EXCEPT !.threw = TRUE, !.err = pyerr]
                  /\ capsule' = "none"
             ELSE /\ calls' = <<>>
                  /\ pc' = "app"
                  /\ phase' = "call"
                  /\ ev' = Event("app_called")
                  /\ capsule' = PyCapsule_New
                  /\ UNCHANGED pyerr
    /\ UNCHANGED retained

StdioStartResponse == AppStartResponseIn(StdioEnv)

StdioReturn == AppReturnIn(StdioEnv)

StdioYield == AppYieldIn(StdioEnv)

NextStdio ==
    \/ StdioRequest
    \/ StdioStartResponse
    \/ AppCatch
    \/ StdioReturn
    \/ AppRaiseCall
    \/ StdioYield
    \/ AppExhaust
    \/ AppRaiseIter

SpecStdio == InitStdio /\ [][NextStdio]_vars

\* A string about to be converted
InitString ==
    /\ pc = "string"
    /\ startup = Started
    /\ conv \in ConvArgs
    /\ driver = "was"
    /\ InitRequest

\* native_string(chars)
NativeStringStep ==
    /\ pc = "string"
    /\ conv.op = "bytes"
    /\ conv' = [conv EXCEPT !.op = "text", !.text = uc_from_latin1(conv.chars)]
    /\ ev' = Event("native_string")
    /\ UNCHANGED <<pc, phase, ndebug, has_close, close_calls, capsule, retained, environ, input, rd,
                   accepted, was, request, handler_calls, response, headers_sent,
                   content_length_left, calls, pyerr, sr_calls, chunks, send_headers_count,
                   sr_produced, exc_seen, assert_raised, startup, driver>>

\* from_native_string(text); a failure leaves the Python error set
FromNativeStringStep ==
    /\ pc = "string"
    /\ conv.op = "text"
    /\ LET r == from_native_string(conv.text)
       IN /\ conv' = [conv EXCEPT !.op = "converted", !.result = r]
          /\ pyerr' = r.err
          /\ ev' = [Event("from_native_string") EXCEPT !.err = r.err]
    /\ UNCHANGED <<pc, phase, ndebug, has_close, close_calls, capsule, retained, environ, input, rd,
                   accepted, was, request, handler_calls, response, headers_sent,
                   content_length_left, calls, sr_calls, chunks, send_headers_count,
                   sr_produced, exc_seen, assert_raised, startup, driver>>

NextString ==
    \/ NativeStringStep
    \/ FromNativeStringStep

SpecString == InitString /\ [][NextString]_vars

----------------------------------------------------------------------------
(* Properties *)

Ops(cs) == [i \in 1..Len(cs) |-> cs[i].op]

Count(cs, ops) == Cardinality({i \in 1..Len(cs) : cs[i].op \in ops})

\* The calls a step added to the transport's log
NewCalls == SubSeq(calls', Len(calls) + 1, Len(calls'))

\* Position of a call in a response: status, headers, length or end, body
Rank(op) ==
    IF op = "status" THEN 0
    ELSE IF op = "set_header" THEN 1
    ELSE IF op \in {"set_length", "end"} THEN 2
    ELSE 3

Response(cs) == SelectSeq(cs, LAMBDA c : c.op # "abort")

RECURSIVE Written(_)
Written(cs) ==
    IF cs = <<>> THEN 0
    ELSE (IF Head(cs).op = "write" THEN Head(cs).n ELSE 0) + Written(Tail(cs))

\* C1: within a request the transport sees status, then set_header calls,
\* then at most one of set_length and end, then write calls; no write is made
\* before SendHeaders has completed, and no status or set_header follows a
\* set_length, end or write.
Thm_C1_CallOrder ==
    LET cs == Response(calls)
    IN /\ \A i, j \in 1..Len(cs) : i < j => Rank(cs[i].op) <= Rank(cs[j].op)
       /\ Count(cs, {"status"}) <= 1
       /\ Count(cs, {"set_length", "end"}) <= 1
       /\ Count(cs, {"write"}) > 0 => headers_sent /\ cs[1].op = "status"

Wit_C1_CallOrder ==
    /\ Ops(calls) = <<"status", "set_header", "set_length", "write", "write">>
    /\ sr_calls = 2

\* C2: SendHeaders runs at most once per request, whatever the start_response
\* calls and the chunks.
Thm_C2_SendHeadersOnce == send_headers_count <= 1

Wit_C2_SendHeadersOnce ==
    /\ send_headers_count = 1
    /\ sr_calls = MaxStartResponse
    /\ exc_seen
    /\ chunks = MaxChunks
    /\ pc = "accept"
    /\ ~ev.threw

\* The bytes left when SendBody runs in a yield step: those of the responder,
\* or those SendHeaders has just recorded
LeftAtBody == IF headers_sent THEN content_length_left ELSE response.content_length

\* C3: with a known Content-Length the bytes handed to write never exceed
\* it; every write is capped to the bytes left, and a chunk longer than the
\* bytes left makes SendBody throw, so that the request is aborted.
Thm_C3_BodyWithinLength ==
    /\ [](response.content_length # NullOpt => Written(calls) <= response.content_length)
    /\ [][(/\ ev'.op = "app_yield"
           /\ Count(NewCalls, {"write"}) > 0
           /\ LeftAtBody # NullOpt)
          => /\ Written(NewCalls) <= LeftAtBody
             /\ ev'.n > LeftAtBody =>
                   /\ ev'.threw
                   /\ pc' = "accept"
                   /\ calls'[Len(calls')].op = "abort"]_vars

Wit_C3_BodyWithinLength ==
    /\ ev.op = "app_yield"
    /\ ev.threw
    /\ response.content_length = 1
    /\ chunks = 2
    /\ ev.n = 2
    /\ Written(calls) = 1
    /\ Ops(calls) = <<"status", "set_header", "set_length", "write", "write", "abort">>

\* C4: when the handler ends with an exception, at whatever point, abort() is
\* called exactly once for the request, as its last call, and the loop is
\* back at accept().
Thm_C4_AbortOnException ==
    ev.threw =>
        /\ pc = "accept"
        /\ Count(calls, {"abort"}) = 1
        /\ calls[Len(calls)].op = "abort"

Wit_C4_AbortOnException ==
    /\ ev.threw
    /\ ev.op = "app_yield"
    /\ Count(calls, {"write"}) = 1
    /\ accepted = 2

\* C5: Run returns exactly when accept() returned none; no rejected request
\* and no exception of the handler ends the loop; the handler is invoked at
\* most once per request; no request is in progress at accept().
Thm_C5_AcceptLoop ==
    /\ pc = "done" <=> was.uri = "none"
    /\ (ev.op \in {"reject_405", "abort_unknown_length"} \/ ev.threw) => pc = "accept"
    /\ handler_calls <= 1
    /\ pc \in {"accept", "done"} => phase = "none"
    /\ pc = "app" => was.uri = "/" /\ handler_calls = 1

Wit_C5_AcceptLoop ==
    /\ pc = "done"
    /\ accepted = LoopMaxRequests
    /\ Count(calls, {"abort"}) = 1

Thm_C7_BodyLength ==
    /\ (accepted > 0 /\ was.uri = "/" /\ was.method_valid /\ was.has_body /\ was.input_remaining < 0) =>
          /\ Ops(calls) = <<"abort">>
          /\ handler_calls = 0
          /\ pc = "accept"
    /\ (accepted > 0 /\ was.uri = "/" /\ was.method_valid /\ was.has_body /\ was.input_remaining >= 0) =>
          /\ handler_calls = 1
          /\ request.has_body
          /\ request.content_length = was.input_remaining

Wit_C7_BodyLength ==
    /\ ev.op = "abort_unknown_length"
    /\ was.has_body
    /\ was.input_remaining < 0
    /\ Ops(calls) = <<"abort">>

\* C8: among start_response calls without exc_info at most one changes the
\* response record; a call made when an earlier call has stored a status
\* (response.status # 0, which holds after every call that returned) raises
\* AssertionError and changes neither the response nor the transport.
Thm_C8_SecondCallRaises ==
    /\ [](~exc_seen => sr_produced <= 1)
    /\ [][(ev'.op = "start_response" /\ ev'.exc = "none" /\ response.status # 0)
          => /\ ev'.err = "AssertionError"
             /\ pyerr' = "AssertionError"
             /\ response' = response
             /\ calls' = calls]_vars
    /\ [][(ev'.op = "start_response" /\ ev'.err = "none") => response'.status # 0]_vars

Wit_C8_SecondCallRaises ==
    /\ ev.op = "start_response"
    /\ ev.exc = "none"
    /\ ev.err = "AssertionError"
    /\ ~exc_seen
    /\ sr_calls = 2
    /\ sr_produced = 1
    /\ response.headers = <<H_XB>>

\* C9 as stated: once a second call has raised AssertionError, the status of
\* the first call never reaches the transport.
CE_C9_FirstResponseNotEmitted ==
    assert_raised => Count(calls, {"status"}) = 0

\* C9 amended: the call that raises AssertionError emits nothing and leaves
\* the response as it was; when the error leaves the application callable
\* and the headers were not sent before, abort() is all the transport sees.
Thm_C9_RaisingCallEmitsNothing ==
    /\ [][(ev'.op = "start_response" /\ ev'.err = "AssertionError")
          => /\ calls' = calls
             /\ response' = response
             /\ headers_sent' = headers_sent]_vars
    /\ [][(ev'.op = "app_raise_call" /\ ev'.err = "AssertionError" /\ ~headers_sent)
          => Ops(calls') = <<"abort">>]_vars

Wit_C9_RaisingCallEmitsNothing ==
    /\ ev.op = "app_raise_call"
    /\ ev.err = "AssertionError"
    /\ assert_raised
    /\ response.status = 200
    /\ Ops(calls) = <<"abort">>

\* C10 as stated: a start_response call with exc_info made after the headers
\* were sent raises the supplied exception, and leaves the response and the
\* transport untouched.
CE_C10_ReraisesSupplied ==
    [][(ev'.op = "start_response" /\ ev'.exc = "valid" /\ headers_sent)
       => /\ ev'.err = "Supplied"
          /\ response' = response
          /\ calls' = calls]_vars

\* A header of the application that declares the length of the body
IsContentLength(hd) == Lower(hd.name) = Lower(CONTENT_LENGTH)

\* What a header list asks to be forwarded: all but Content-Length, in order
ForwardedHeaders(h) == SelectSeq(h, LAMBDA hd : ~IsContentLength(hd))

\* The length a header list declares (NullOpt: none)
DeclaredLength(h) ==
    LET cl == SelectSeq(h, IsContentLength)
    IN IF cl = <<>> THEN NullOpt ELSE ParseInteger(cl[Len(cl)].value, UINT64_CAP)

\* The headers handed to set_header, in order
SetHeaderSeq(cs) ==
    LET sh == SelectSeq(cs, LAMBDA c : c.op = "set_header")
    IN [i \in 1..Len(sh) |-> sh[i].h]

\* C11 as stated: a start_response call with exc_info that is accepted before
\* the headers were sent leaves in the response record the headers and the
\* length of its own header list, and nothing of earlier calls.
CE_C11_LastCallWins ==
    [][(ev'.op = "start_response" /\ ev'.exc = "valid" /\ ev'.err = "none" /\ ~headers_sent)
       => /\ response'.headers = ForwardedHeaders(ev'.h)
          /\ response'.content_length = DeclaredLength(ev'.h)]_vars

\* RFC 7230 token: one or more visible ASCII characters other than separators
IsToken(name) ==
    /\ Len(name) > 0
    /\ \A i \in 1..Len(name) :
          /\ name[i] \in 33..126
          /\ name[i] \notin {40, 41, 60, 62, 64, 44, 59, 58, 92, 34, 47, 91, 93, 63, 61, 123, 125}

\* field-value: HTAB, SP, visible ASCII and obs-text
IsFieldValue(value) ==
    \A i \in 1..Len(value) : value[i] \in {9, 32} \cup (33..126) \cup (128..255)

\* connection, keep-alive, proxy-authenticate, proxy-authorization, te,
\* trailer, transfer-encoding, upgrade
HopByHopNames ==
    { <<99, 111, 110, 110, 101, 99, 116, 105, 111, 110>>,
      <<107, 101, 101, 112, 45, 97, 108, 105, 118, 101>>,
      <<112, 114, 111, 120, 121, 45, 97, 117, 116, 104, 101, 110, 116, 105, 99, 97, 116, 101>>,
      <<112, 114, 111, 120, 121, 45, 97, 117, 116, 104, 111, 114, 105, 122, 97, 116, 105, 111, 110>>,
      <<116, 101>>,
      <<116, 114, 97, 105, 108, 101, 114>>,
      <<116, 114, 97, 110, 115, 102, 101, 114, 45, 101, 110, 99, 111, 100, 105, 110, 103>>,
      <<117, 112, 103, 114, 97, 100, 101>> }

Thm_C13_ContentLengthExtracted ==
    /\ [](\A i \in 1..Len(calls) : calls[i].op = "set_header" => ~IsContentLength(calls[i].h))
    /\ [][(ev'.op = "start_response" /\ ev'.err = "none")
          => /\ DeclaredLength(ev'.h) # NullOpt => response'.content_length = DeclaredLength(ev'.h)
             /\ Len(response'.headers) >= Len(ForwardedHeaders(ev'.h))
             /\ SubSeq(response'.headers,
                       Len(response'.headers) - Len(ForwardedHeaders(ev'.h)) + 1,
                       Len(response'.headers)) = ForwardedHeaders(ev'.h)]_vars
    /\ [][(/\ ev'.op = "start_response"
           /\ \E i \in 1..Len(ev'.h) :
                 /\ IsContentLength(ev'.h[i])
                 /\ \/ ev'.h[i].value = <<>>
                    \/ \E k \in 1..Len(ev'.h[i].value) : ev'.h[i].value[k] \notin 48..57)
          => /\ ev'.err # "none"
             /\ ev'.err \notin {"TypeError", "AssertionError", "SystemError"}
                   => ev'.err = "ValueError"]_vars

Wit_C13_ContentLengthExtracted ==
    /\ ev.op = "start_response"
    /\ ev.err = "none"
    /\ ev.h = <<H_cl1, H_XB>>
    /\ response.content_length = 1
    /\ response.headers = <<H_XB>>

\* C14 as stated: the headers handed to set_header for a request are what
\* one header list supplied to start_response asks to be forwarded, in order,
\* nothing added and nothing twice.
CE_C14_HeaderOrder ==
    headers_sent => \E h \in HeaderLists : SetHeaderSeq(calls) = ForwardedHeaders(h)

\* C15: an accepted start_response call that leaves Content-Length 0 sends
\* the headers at once, ending with end() and without set_length; no body
\* byte is written for a response with Content-Length 0, and a non-empty
\* chunk ends the request with an exception.
Thm_C15_ZeroLength ==
    /\ [][(/\ ev'.op = "start_response"
           /\ ev'.err = "none"
           /\ response'.content_length = 0
           /\ ~ev'.threw
           /\ pc' # "crashed")
          => /\ headers_sent'
             /\ Len(NewCalls) >= 2
             /\ NewCalls[1].op = "status"
             /\ NewCalls[Len(NewCalls)].op = "end"
             /\ Count(NewCalls, {"set_length", "write"}) = 0]_vars
    /\ [](response.content_length = 0 =>
             /\ Written(calls) = 0
             /\ Count(calls, {"set_length"}) = 0)
    /\ [][(/\ ev'.op = "app_yield"
           /\ ev'.n > 0
           /\ response.content_length = 0
           /\ pc' # "crashed")
          => /\ ev'.threw
             /\ pc' = "accept"
             /\ Written(calls') = 0
             /\ calls'[Len(calls')].op = "abort"]_vars

Wit_C15_ZeroLength ==
    /\ ev.op = "app_yield"
    /\ ev.n = MaxChunkLen
    /\ ev.threw
    /\ sr_calls = 1
    /\ response.content_length = 0
    /\ Ops(calls) = <<"status", "set_header", "end", "write", "abort">>

\* C16 as stated: a status call has reached the transport only if the
\* response declares Content-Length 0, or a chunk was yielded, or the
\* iterable was exhausted.
CE_C16_HeadersDeferred ==
    Count(calls, {"status"}) > 0 =>
        \/ response.content_length = 0
        \/ chunks > 0
        \/ ev.op = "app_exhaust"

\* C17: when the application raises, yields a chunk or exhausts its iterable
\* while response.status is 0, the request ends with an exception: abort() is
\* the only transport call and the loop is back at accept().
Thm_C17_NoStartResponse ==
    (ev.op \in {"app_raise_call", "app_raise_iter", "app_yield", "app_exhaust"}
     /\ response.status = 0)
    => /\ ev.threw
       /\ Ops(calls) = <<"abort">>
       /\ pc = "accept"

Wit_C17_NoStartResponse ==
    /\ ev.op = "app_yield"
    /\ ev.n > 0
    /\ response.status = 0
    /\ sr_calls = 1
    /\ Ops(calls) = <<"abort">>

\* C18 as stated: when the object the application returned has a close
\* attribute and the iteration over it has ended, by exhaustion or by an
\* exception of the iterator or of the sending of a chunk, close() has been
\* called exactly once.
CE_C18_CloseCalled ==
    (/\ has_close
     /\ pc = "accept"
     /\ ev.op \in {"app_yield", "app_exhaust", "app_raise_iter"})
    => close_calls = 1

\* C19 as stated: a call of a start_response callable kept from a request
\* whose Process has returned fails with the RuntimeError of the capsule
\* check and touches neither a response record nor a responder.
CE_C19_StaleCallFails ==
    [][ev'.op = "stale_start_response"
       => /\ ev'.err = "RuntimeError"
          /\ pc' = pc
          /\ response' = response
          /\ headers_sent' = headers_sent
          /\ content_length_left' = content_length_left
          /\ calls' = calls]_vars

\* The key the header loop is meant to write for a request header
TranslatedKey(name) ==
    HTTP_PREFIX \o [i \in 1..Len(name) |->
                       LET c == ToUpperASCII(name[i]) IN IF c = 45 THEN 95 ELSE c]

\* C20 as stated: when the application is called, environ has, for every
\* request header other than Content-Type and Content-Length, the key HTTP_
\* followed by the upper-cased name with '_' for '-', and under it the value
\* of a header of that name.
CE_C20_TranslatedKeys ==
    ev.op = "app_called" =>
        \A i \in 1..Len(was.headers) :
            (~HeaderMatch(was.headers[i].name, CONTENT_TYPE)
             /\ ~HeaderMatch(was.headers[i].name, CONTENT_LENGTH))
            => /\ TranslatedKey(was.headers[i].name) \in DOMAIN environ
               /\ \E j \in 1..Len(was.headers) :
                     /\ TranslatedKey(was.headers[j].name) = TranslatedKey(was.headers[i].name)
                     /\ environ[TranslatedKey(was.headers[i].name)] = was.headers[j].value

\* Two names are equal when letter case is ignored
SameName(a, b) == Lower(a) = Lower(b)

\* The value of the first header of a list whose name is the given one in
\* any case, or the empty string
FirstValue(headers, name) ==
    IF \E i \in 1..Len(headers) : SameName(headers[i].name, name)
    THEN headers[CHOOSE i \in 1..Len(headers) :
                     /\ SameName(headers[i].name, name)
                     /\ \A j \in 1..(i - 1) : ~SameName(headers[j].name, name)].value
    ELSE <<>>

\* C21 as stated: when the application is called, no Content-Type or
\* Content-Length request header (in any case) has been copied into environ
\* under its translated key, and environ's CONTENT_TYPE is the value of the
\* first request header named Content-Type in any case, or the empty string
\* when there is none.
CE_C21_ContentType ==
    ev.op = "app_called" =>
        /\ \A i \in 1..Len(was.headers) :
              (SameName(was.headers[i].name, CONTENT_TYPE) \/ SameName(was.headers[i].name, CONTENT_LENGTH))
              => TranslatedKey(was.headers[i].name) \notin DOMAIN environ
        /\ environ[K_CONTENT_TYPE] = FirstValue(was.headers, CONTENT_TYPE)

\* C22 as stated: when the application is called, environ's CONTENT_LENGTH is
\* the decimal text of the declared length of the body when the request has
\* one and the empty string when it has none, whatever the request headers.
CE_C22_ContentLength ==
    ev.op = "app_called" =>
        environ[K_CONTENT_LENGTH] =
            IF was.has_body THEN DecimalText(was.input_remaining) ELSE <<>>

\* The port a Host value supplies: what follows its first ':', nothing when
\* it has no ':'
PortOf(value) ==
    IF \E i \in 1..Len(value) : value[i] = 58 THEN SubstrAfter(value, 58) ELSE <<>>

\* The indices of the Host headers of a list
HostHeaders(headers) == {i \in 1..Len(headers) : SameName(headers[i].name, HOST)}

\* Some header named X-CM4all-HTTPS in any case has the value "on"
SaysHttps(headers) ==
    \E i \in 1..Len(headers) :
        SameName(headers[i].name, X_CM4ALL_HTTPS) /\ headers[i].value = STR_on

\* C23 as stated: when the application is called and no Host header of the
\* request supplies a port (there is none, or its value has no ':', or
\* nothing follows the ':'), server_port is "443" when the scheme is https
\* and "80" otherwise, whatever the order of the headers.
CE_C23_DefaultPort ==
    (ev.op = "app_called" /\ \A i \in HostHeaders(was.headers) : PortOf(was.headers[i].value) = <<>>)
    => request.server_port = IF request.scheme = STR_https THEN STR_443 ELSE STR_80

\* C24 as stated: when the application is called, the scheme is https
\* exactly when some X-CM4all-HTTPS header has the value "on"; the value of
\* the request's Host header is split at its first ':' into SERVER_NAME and
\* SERVER_PORT; and environ's HTTPS is "on" exactly when the scheme is https.
CE_C24_SchemeAndHost ==
    ev.op = "app_called" =>
        /\ request.scheme = (IF SaysHttps(was.headers) THEN STR_https ELSE STR_http)
        /\ environ[K_wsgi_url_scheme] = request.scheme
        /\ \A i \in HostHeaders(was.headers) :
              HostHeaders(was.headers) = {i} =>
                  /\ request.server_name = SubstrBefore(was.headers[i].value, 58)
                  /\ environ[K_SERVER_NAME] = request.server_name
                  /\ PortOf(was.headers[i].value) # <<>> =>
                        /\ request.server_port = PortOf(was.headers[i].value)
                        /\ environ[K_SERVER_PORT] = request.server_port
        /\ (environ[K_HTTPS] = STR_on) <=> (request.scheme = STR_https)

\* C25: Uri::split of a string without '?' gives the string and an empty
\* query; of a string with '?' it gives what precedes the first '?' and what
\* starts at that '?', the '?' included. The two parts concatenated are the
\* string and the path has no '?'. The request carries these parts unless
\* the transport supplied PATH_INFO or QUERY_STRING.
Thm_C25_UriSplit ==
    ev.op = "app_called" =>
        LET s == was.uri_text
            r == Uri_split(s)
        IN /\ IF \A i \in 1..Len(s) : s[i] # 63
              THEN r.path = s /\ r.query = <<>>
              ELSE \E k \in 1..Len(s) :
                      /\ s[k] = 63
                      /\ \A j \in 1..(k - 1) : s[j] # 63
                      /\ r.path = SubSeq(s, 1, k - 1)
                      /\ r.query = SubSeq(s, k, Len(s))
           /\ r.path \o r.query = s
           /\ \A i \in 1..Len(r.path) : r.path[i] # 63
           /\ was.path_info = nullptr => request.uri.path = r.path
           /\ was.query_string = nullptr => request.uri.query = r.query

Wit_C25_UriSplit ==
    /\ ev.op = "app_called"
    /\ was.uri_text = <<97, 63, 63>>
    /\ request.uri = [path |-> <<97>>, query |-> <<63, 63>>]

\* C26: a start_response call with one header is accepted only if the name
\* is a non-empty token (visible ASCII without separators, SP, HTAB and
\* without characters from 0x80 on) and every character of the value is HTAB,
\* SP, 0x21 to 0x7E or 0x80 to 0xFF; a header that is not of this form makes
\* the call fail with ValueError.
Thm_C26_HeaderSyntax ==
    (ev.op = "start_response" /\ Len(ev.h) = 1) =>
        LET h == ev.h[1]
        IN /\ ev.err = "none" => IsToken(h.name) /\ IsFieldValue(h.value)
           /\ ~(IsToken(h.name) /\ IsFieldValue(h.value)) => ev.err = "ValueError"

\* A call with the value DEL was rejected
Wit_C26_HeaderSyntax ==
    /\ ev.op = "start_response"
    /\ ev.h = <<[name |-> <<88>>, value |-> <<127>>]>>
    /\ ev.err = "ValueError"
    /\ response.headers = <<>>

\* C27: a start_response call whose header list contains Connection,
\* Keep-Alive, Proxy-Authenticate, Proxy-Authorization, TE, Trailer,
\* Transfer-Encoding or Upgrade in any letter case fails with ValueError; a
\* call whose only header is Content-Length with a number does not fail.
Thm_C27_HopByHopRejected ==
    ev.op = "start_response" =>
        /\ (\E i \in 1..Len(ev.h) : Lower(ev.h[i].name) \in HopByHopNames) => ev.err = "ValueError"
        /\ (/\ Len(ev.h) = 1
            /\ Lower(ev.h[1].name) = Lower(CONTENT_LENGTH)
            /\ ev.h[1].value \in {<<48>>, <<49>>, <<50>>}) => ev.err = "none"

\* A call with X-A followed by TRANSFER-ENCODING was rejected after X-A had
\* been stored
Wit_C27_HopByHopRejected ==
    /\ ev.op = "start_response"
    /\ Len(ev.h) = 2
    /\ ev.h[2].name = Upper(<<84, 114, 97, 110, 115, 102, 101, 114, 45, 69, 110, 99, 111, 100, 105, 110, 103>>)
    /\ ev.err = "ValueError"
    /\ response.headers = <<H_XA>>

\* C28: read(0) returns no bytes and makes no Read call on the stream; a
\* read of a positive size makes exactly one Read call and, when it succeeds,
\* returns at most size bytes, the next of the body; a read of a negative
\* size (or without size) that succeeds returns all the bytes that remained,
\* in order, and every successful read after it returns no bytes.
Thm_C28_InputRead ==
    ev.op = "read" =>
        /\ rd.size = 0 =>
              /\ rd.result = <<>>
              /\ rd.err = "none"
              /\ rd.reads = 0
              /\ input = rd.before
        /\ rd.size > 0 =>
              /\ rd.reads = 1
              /\ rd.err = "none" =>
                    /\ Len(rd.result) <= rd.size
                    /\ rd.result \o input = rd.before
        /\ (rd.size < 0 /\ rd.err = "none") =>
              /\ rd.result = rd.before
              /\ input = <<>>
        /\ (rd.was_drained /\ rd.err = "none") => rd.result = <<>>

\* After read(1) returned the first byte, a read without size took three
\* Read calls to return the other two bytes
Wit_C28_InputRead ==
    /\ ev.op = "read"
    /\ rd.count = 2
    /\ rd.size < 0
    /\ rd.reads = 3
    /\ rd.before = <<2, 3>>
    /\ rd.result = <<2, 3>>

\* C29: a read during which the transport returned -1 or -2 raises IOError
\* and returns nothing, whatever it had read before; a read during which the
\* transport returned 0 is a successful read up to the end of the data; and
\* when the application lets the IOError out, the request is aborted and the
\* adapter is back at accepting requests.
Thm_C29_ReadFailure ==
    /\ (ev.op = "read" /\ rd.reads > 0) =>
          /\ rd.rc < 0 => (rd.err = "IOError" /\ rd.result = NotStr /\ pyerr = "IOError")
          /\ rd.rc >= 0 => (rd.err = "none" /\ rd.result \o input = rd.before)
          /\ (rd.rc = 0 /\ request.has_body) => input = <<>>
    /\ (ev.op = "app_raise_call" /\ ev.err = "IOError") =>
          /\ Ops(calls) = <<"abort">>
          /\ pc = "accept"
          /\ pyerr = "none"

\* A read without size failed with -1 after part of the body had been
\* delivered, the application let the IOError out and the request was aborted
Wit_C29_ReadFailure ==
    /\ ev.op = "app_raise_call"
    /\ ev.err = "IOError"
    /\ rd.size < 0
    /\ rd.rc = -1
    /\ rd.before = <<1, 2, 3>>
    /\ input = <<3>>
    /\ Ops(calls) = <<"abort">>

\* C30: while a request is being served and its headers have been sent, the
\* bytes left are the declared Content-Length minus the bytes handed to
\* write so far, and never negative, when the length is known; when it is
\* unknown the bytes left stay unknown and a chunk that was sent was written
\* in full.
Thm_C30_LengthLeft ==
    (pc = "app" /\ headers_sent) =>
        IF response.content_length # NullOpt
        THEN /\ content_length_left = response.content_length - Written(calls)
             /\ content_length_left >= 0
        ELSE /\ content_length_left = NullOpt
             /\ ev.op = "app_yield" =>
                   /\ calls[Len(calls)].op = "write"
                   /\ calls[Len(calls)].n = ev.n

\* With Content-Length 1, an empty chunk and a chunk of one byte were sent
\* and nothing is left
Wit_C30_LengthLeft ==
    /\ pc = "app"
    /\ headers_sent
    /\ response.content_length = 1
    /\ chunks = 2
    /\ Written(calls) = 1
    /\ content_length_left = 0

\* C31: the transport sees end only for a response whose content length is
\* 0 and set_length(n) only for one whose content length is n > 0, each at
\* most once and after status and every set_header of the request; once
\* SendHeaders has completed it has seen end exactly once and no set_length
\* for length 0, set_length exactly once and no end for a length above 0,
\* and neither for an unknown length.
Thm_C31_EndOrSetLength ==
    /\ \A i \in 1..Len(calls) :
          /\ calls[i].op = "end" => response.content_length = 0
          /\ calls[i].op = "set_length" => (calls[i].n > 0 /\ response.content_length = calls[i].n)
          /\ calls[i].op \in {"end", "set_length"} =>
                /\ calls[1].op = "status"
                /\ \A j \in 1..Len(calls) : calls[j].op \in {"status", "set_header"} => j < i
                /\ Count(SubSeq(calls, 1, i), {"set_header"}) = Len(response.headers)
    /\ headers_sent =>
          /\ Count(calls, {"end"}) = (IF response.content_length = 0 THEN 1 ELSE 0)
          /\ Count(calls, {"set_length"}) = (IF response.content_length > 0 THEN 1 ELSE 0)

\* SendHeaders completed for a response with one header and Content-Length 1
Wit_C31_EndOrSetLength ==
    /\ headers_sent
    /\ response.content_length = 1
    /\ Ops(calls) = <<"status", "set_header", "set_length">>

\* C32 as stated: no status call of the transport carries a code that is not
\* a recognized HTTP status code, and SendHeaders, given such a code, fails
\* with an error (the request is aborted and the process goes on).
CE_C32_StatusValidated ==
    /\ \A i \in 1..Len(calls) : calls[i].op = "status" => http_status_is_valid(calls[i].n)
    /\ pc # "crashed"

\* The first of the names app and application under which the module has a
\* callable, or "none"
FirstCallable(attrs) ==
    IF attrs["app"] = "callable" THEN "app"
    ELSE IF attrs["application"] = "callable" THEN "application"
    ELSE "none"

\* C33 as stated: called without an app name, FindApp returns a callable
\* object when the module has one under app or application (app first), and
\* fails otherwise; what it returns is never an object that cannot be called.
CE_C33_FindAppCallable ==
    (ev.op = "find_app" /\ startup.app_name = "none" /\ "app" \in startup.importable
     /\ startup.module_name = "none") =>
        IF FirstCallable(startup.attrs) # "none"
        THEN startup.result = [outcome |-> "returned", app |-> "callable"]
        ELSE startup.result.outcome = "threw"

\* C34: every byte string decoded by uc_from_latin1 comes back from
\* from_native_string byte for byte, and from_native_string fails with a
\* value error and returns no bytes for every text string that has a code
\* point above 255.
Thm_C34_Latin1RoundTrip ==
    conv.op = "converted" =>
        IF \E i \in 1..Len(conv.text) : conv.text[i] > 255
        THEN conv.result = [ok |-> FALSE, bytes |-> <<>>, err |-> "ValueError"] /\ pyerr = "ValueError"
        ELSE /\ conv.result.ok
             /\ conv.result.err = "none"
             /\ Len(conv.result.bytes) = Len(conv.text)
             /\ conv.from_chars => conv.result.bytes = conv.chars

Wit_C34_Latin1RoundTrip ==
    /\ conv.op = "converted"
    /\ conv.from_chars
    /\ conv.chars = <<-1, -128>>
    /\ conv.text = <<255, 128>>
    /\ conv.result.bytes = conv.chars

\* C35 as stated: a start_response call that fails (unparsable or
\* unrecognized status, a header part that is not text, an invalid or
\* hop-by-hop header name, an invalid value, an unparsable Content-Length)
\* leaves the response record as it was before the call: status, header list
\* and content length.
CE_C35_FailedCallLeavesResponse ==
    [][(ev'.op = "start_response" /\ ev'.err # "none" /\ sr_calls' = sr_calls + 1)
          => response' = response]_vars

\* C36 as stated: whatever way a request failed, no Python error is pending
\* when Process starts for a later request, so that Process never fails at
\* its PyErr_Occurred check with the error of an earlier request.
CE_C36_NoPendingError ==
    /\ ev.op # "process_pending_error"
    /\ (pc = "accept" /\ accepted > 0) => pyerr = "none"

\* A key starts with "HTTP_"
HasHttpPrefix(key) ==
    Len(key) >= Len(HTTP_PREFIX) /\ SubSeq(key, 1, Len(HTTP_PREFIX)) = HTTP_PREFIX

\* C37 as stated: when the application is called, every environ key written
\* from a request header starts with HTTP_, so that the keys the gateway
\* sets itself (PATH_INFO, QUERY_STRING, CONTENT_TYPE, CONTENT_LENGTH,
\* SERVER_NAME, SERVER_PORT, SERVER_PROTOCOL, SERVER_SOFTWARE, HTTPS, ...)
\* still have the values the gateway gave them.
CE_C37_FixedKeysProtected ==
    ev.op = "app_called" =>
        /\ \A k \in DOMAIN FixedEnviron(request) : environ[k] = FixedEnviron(request)[k]
        /\ \A k \in (DOMAIN environ) \ (DOMAIN FixedEnviron(request)) : HasHttpPrefix(k)

\* C38 as stated: when the iterator raises before its first chunk, after a
\* start_response that left a content length other than 0, SendHeaders is
\* not called: abort() is the only call the transport sees.
CE_C38_RaiseBeforeFirstChunk ==
    (/\ ev.op = "app_raise_iter"
     /\ chunks = 0
     /\ response.status # 0
     /\ response.content_length # 0)
    => /\ send_headers_count = 0
       /\ Ops(calls) = <<"abort">>

\* C39 as stated: after end() was called on the transport for a request, no
\* write() is issued for that request, whatever its length.
CE_C39_NoWriteAfterEnd ==
    \A i, j \in 1..Len(calls) :
        (calls[i].op = "end" /\ calls[j].op = "write") => j < i

\* C40 as stated: in the stdio test mode SendHeaders is called on the
\* printing responder once per request at most, and exactly once when the
\* request has ended without an exception: status and headers are printed
\* once, whatever the number of chunks.
CE_C40_PrintedOnce ==
    driver = "stdio" =>
        /\ send_headers_count <= 1
        /\ Count(calls, {"print_response"}) <= 1
        /\ (ev.op = "app_exhaust" /\ ~ev.threw) => Count(calls, {"print_response"}) = 1

====
